---- MODULE Spec2Model ----
(***************************************************************************)
(* PyMine-Net: packet framing, compression switch, packet registry and the *)
(* client / per-connection server endpoints.                               *)
(*                                                                         *)
(* Bytes are integers 0..255, byte strings are sequences of bytes.  A      *)
(* packet is a record [cls, args]: cls is the name of the packet class and *)
(* args the constructor arguments in order, every argument held as a       *)
(* sequence of integers (an int v as <<v>>, a str / bytes / UUID value as  *)
(* its bytes, a JSON value as <<code>>).                                   *)
(* An operation that can raise returns a record whose exc field names the  *)
(* exception ("" when it returns normally).                                *)
(***************************************************************************)
EXTENDS Integers, Sequences, FiniteSets, TLC

VARIABLES
    phase,      \* codec harness: "start", "encoded", "decoded", "read";
                \* "conn" on a connection
    encoder,    \* which encoder produces the frame: "server", "client", "packet_map"
    writer,     \* the sending endpoint  [state, compression_threshold]
    reader,     \* the receiving endpoint [role, state, compression_threshold]
    reader0,    \* the receiving endpoint as it was before the call
    pkt,        \* the packet handed to the encoder
    frame,      \* result of the encoder [exc, val]
    res,        \* result of the decoder (see NoResult)
    variant,    \* transport of the connection: "socket" or "asyncio"
    client,     \* client endpoint [state, compression_threshold]
    server,     \* per-connection server endpoint [state, compression_threshold]
    c2s,        \* bytes in flight client -> server
    s2c,        \* bytes in flight server -> client
    log,        \* history of the connection (see LogInit)
    last,       \* outcome of the last endpoint call (see NoCall)
    task,       \* where the read_packet coroutine of each endpoint is
                \* suspended, "" when none is running (see TaskIdle)
    srv,        \* the accepting server (see SrvIdle)
    rmap,       \* registry harness: a list of packet classes and the
                \* StatePacketMap built from it (see RegIdle); a Registry
                \* of types/registry.py and the calls made on it (see DataIdle)
    bh,         \* buffer harness: a Buffer, the values written to it and
                \* the values read back (see BufIdle);
                \* encryption harness: the program run on an encrypted
                \* stream and its outcome (see CryptIdle)
    run         \* the status exchange of the tests: position of the client
                \* program and of the server hook (see RunIdle);
                \* blocking-read harness: what the peer sent and the outcome
                \* of the read made on the socket stream (see RecvIdle)

codecVars == <<phase, encoder, writer, reader, reader0, pkt, frame, res>>
connVars == <<variant, client, server, c2s, s2c, log, last>>
extVars == <<task, srv, rmap, bh, run>>
vars == <<phase, encoder, writer, reader, reader0, pkt, frame, res,
          variant, client, server, c2s, s2c, log, last, task, srv, rmap, bh, run>>

---------------------------------------------------------------------------
(* enums.py *)

HANDSHAKING == 0
STATUS == 1
LOGIN == 2
PLAY == 3

GameState == {HANDSHAKING, STATUS, LOGIN, PLAY}

CLIENTBOUND == "CLIENT-BOUND"
SERVERBOUND == "SERVER-BOUND"

---------------------------------------------------------------------------
(* Bounds of the model *)

\* largest positive compression threshold an endpoint is given
MaxThreshold == 4
\* longest user name / address string a packet carries
MaxStrLen == 1
\* number of write_packet calls on one connection
MaxWrites == 2
\* number of read_packet calls on one connection
MaxReads == 2
\* largest number of bytes a single send call may leave unsent
MaxShortfall == 1

Thresholds == -1..MaxThreshold

---------------------------------------------------------------------------
(* Byte strings and Python slicing *)

\* v is bound to the name the operator In gives it (a local variable)
Bind(v, In(_)) == In(v)

Norm(i, n) ==
    IF i < 0 THEN (IF n + i < 0 THEN 0 ELSE n + i)
    ELSE (IF i > n THEN n ELSE i)

\* data[a:b]
PySlice(data, a, b) ==
    Bind(Norm(a, Len(data)), LAMBDA lo :
    Bind(Norm(b, Len(data)), LAMBDA hi :
        IF lo >= hi THEN <<>> ELSE SubSeq(data, lo + 1, hi)))

RECURSIVE Repeat(_, _)
Repeat(b, n) == IF n <= 0 THEN <<>> ELSE <<b>> \o Repeat(b, n - 1)

---------------------------------------------------------------------------
(* types/buffer.py: Buffer is a bytearray with a read cursor pos *)

Buffer(data) == [data |-> data, pos |-> 0]

Ret(exc, val, buf) == [exc |-> exc, val |-> val, buf |-> buf]

\* Buffer.extend / write_bytes
extend(buf, data) == [buf EXCEPT !.data = @ \o data]

\* Buffer.read_bytes(length): the slice is taken first, pos advances by
\* length whatever the slice held
read_bytes(buf, length) ==
    Ret("", PySlice(buf.data, buf.pos, buf.pos + length),
        [buf EXCEPT !.pos = @ + length])

\* a read_bytes() that takes the bytes up to len(self) - pos only when pos is 0
read_bytes_all_left(buf) == read_bytes(buf, IF buf.pos = 0 THEN Len(buf.data) ELSE 0)

\* Buffer.read_bytes() with length None: length = len(self)
read_bytes_all(buf) == read_bytes(buf, Len(buf.data))

\* Buffer.read_byte: self[self.pos], IndexError at the end of the bytes
read_byte(buf) ==
    IF buf.pos >= Len(buf.data) THEN Ret("IndexError", <<>>, buf)
    ELSE Ret("", <<buf.data[buf.pos + 1]>>, [buf EXCEPT !.pos = @ + 1])

\* struct.calcsize of the formats the packets use
calcsize(fmt) ==
    CASE fmt = "B" -> 1
      [] fmt = "?" -> 1
      [] fmt = "H" -> 2
      [] fmt = "q" -> 8
      [] fmt = "b" -> 1
      [] fmt = "h" -> 2
      [] fmt = "i" -> 4
      [] fmt = "f" -> 4
      [] fmt = "d" -> 8

\* big-endian value of the low four bytes of an 8-byte field, as a signed
\* 32-bit number when the upper four bytes are its sign extension
Int64Value(bs) ==
    LET low == bs[6] * 65536 + bs[7] * 256 + bs[8]
    IN  IF SubSeq(bs, 1, 4) = <<0, 0, 0, 0>> /\ bs[5] < 128
        THEN <<bs[5] * 16777216 + low>>
        ELSE IF SubSeq(bs, 1, 4) = <<255, 255, 255, 255>> /\ bs[5] >= 128
        THEN <<(bs[5] - 256) * 16777216 + low>>
        ELSE bs   \* beyond 32 bits: the value is kept as its eight bytes

\* struct.unpack(">" + fmt, bs)
struct_unpack(fmt, bs) ==
    CASE fmt = "B" -> <<bs[1]>>
      [] fmt = "?" -> <<IF bs[1] = 0 THEN 0 ELSE 1>>
      [] fmt = "H" -> <<bs[1] * 256 + bs[2]>>
      [] fmt = "q" -> Int64Value(bs)
      [] fmt = "b" -> <<IF bs[1] >= 128 THEN bs[1] - 256 ELSE bs[1]>>
      [] fmt = "h" -> <<(IF bs[1] >= 128 THEN bs[1] - 256 ELSE bs[1]) * 256 + bs[2]>>
      [] fmt = "i" -> <<(IF bs[1] >= 128 THEN bs[1] - 256 ELSE bs[1]) * 16777216
                        + bs[2] * 65536 + bs[3] * 256 + bs[4]>>
      [] fmt = "f" -> bs   \* a float is kept as the bytes that encode it
      [] fmt = "d" -> bs

\* the exponent of the highest bit of a > 0
RECURSIVE ilog2(_)
ilog2(a) == IF a < 2 THEN 0 ELSE 1 + ilog2(a \div 2)

\* struct.pack(">f", n) for a whole number n, |n| < 2^24: sign, exponent
\* biased by 127, 23 bits of fraction
pack_float(n) ==
    IF n = 0 THEN <<0, 0, 0, 0>>
    ELSE Bind(IF n < 0 THEN 0 - n ELSE n, LAMBDA a :
         Bind(ilog2(a) + 127, LAMBDA E :
         Bind((a - 2 ^ (E - 127)) * 2 ^ (150 - E), LAMBDA m :
            <<(IF n < 0 THEN 128 ELSE 0) + E \div 2,
              (E % 2) * 128 + m \div 65536, (m \div 256) % 256, m % 256>>)))

\* struct.pack(">" + fmt, v) for the values the model constructs
struct_pack(fmt, v) ==
    CASE fmt = "B" -> <<v[1]>>
      [] fmt = "?" -> <<v[1]>>
      [] fmt = "H" -> <<v[1] \div 256, v[1] % 256>>
      [] fmt = "q" ->
            IF Len(v) = 8 THEN v
            ELSE Repeat(IF v[1] < 0 THEN 255 ELSE 0, 4) \o
                 <<(v[1] \div 16777216) % 256, (v[1] \div 65536) % 256,
                   (v[1] \div 256) % 256, v[1] % 256>>
      [] fmt = "b" -> <<v[1] % 256>>
      [] fmt = "h" -> <<(v[1] \div 256) % 256, v[1] % 256>>
      [] fmt = "i" -> <<(v[1] \div 16777216) % 256, (v[1] \div 65536) % 256,
                        (v[1] \div 256) % 256, v[1] % 256>>
      [] fmt = "f" -> pack_float(v[1])

\* Buffer.read(fmt): struct.error when fewer bytes remain than the format needs
read(buf, fmt) ==
    Bind(read_bytes(buf, calcsize(fmt)), LAMBDA r :
        IF Len(r.val) # calcsize(fmt) THEN Ret("struct.error", <<>>, r.buf)
        ELSE Ret("", struct_unpack(fmt, r.val), r.buf))

\* Buffer.write(fmt, value)
write(buf, fmt, v) == extend(buf, struct_pack(fmt, v))

---------------------------------------------------------------------------
(* Varints.  TLC integers are 32 bits wide, so the unsigned 32-bit value   *)
(* the code shifts is held as its base-128 digits, least significant       *)
(* first: digit k is (value >> 7 * (k - 1)) & 0x7F.                        *)

\* the digits of value mod 2^31: bit 31 is dropped
Digits_mod31(v) ==
    << v % 128, (v \div 128) % 128, (v \div 16384) % 128,
       (v \div 2097152) % 128, (v \div 268435456) % 8 >>

\* digits of value after `value += 1 << 32` for a negative value; the fifth
\* digit holds bits 28..31
Digits(v) ==
    << v % 128, (v \div 128) % 128, (v \div 16384) % 128,
       (v \div 2097152) % 128, (v \div 268435456) % 16 >>

\* value >> 7 * k is positive
MoreAfter(d, k) == \E j \in (k + 1)..Len(d) : d[j] # 0

\* a range check that accepts every value
InBits_any(v, max_bits) == TRUE

\* value_min <= value <= value_max for max_bits in {16, 32}; value is a
\* 32-bit number here, so max_bits = 32 never rejects it
InBits(v, max_bits) ==
    IF max_bits = 32 THEN TRUE ELSE v >= -32768 /\ v <= 32767

\* digit k of the value, 0 beyond its last digit
Digit(d, k) == IF k <= Len(d) THEN d[k] ELSE 0

\* the loop of Buffer.write_varint: one byte per digit, 0x80 set while the
\* shifted value is positive, break when it is zero
RECURSIVE write_varint_loop(_, _, _)
write_varint_loop(buf, d, k) ==
    IF k > 10 THEN buf
    ELSE IF ~MoreAfter(d, k) THEN write(buf, "B", <<Digit(d, k)>>)
    ELSE write_varint_loop(write(buf, "B", <<Digit(d, k) + 128>>), d, k + 1)

\* Buffer.write_varint(value, max_bits)
write_varint(buf, value, max_bits) ==
    IF ~InBits(value, max_bits) THEN Ret("ValueError", <<>>, buf)
    ELSE Ret("", <<>>, write_varint_loop(buf, Digits(value), 1))

\* the bytes write_varint appends to an empty buffer
Varint(value) == write_varint(Buffer(<<>>), value, 32).buf.data

\* the loop of Buffer.read_varint: at most ten bytes, break on a byte
\* without 0x80; val collects the digits
RECURSIVE read_varint_loop(_, _, _)
read_varint_loop(buf, i, d) ==
    IF i = 10 THEN Ret("", d, buf)
    ELSE Bind(read(buf, "B"), LAMBDA r :
            IF r.exc # "" THEN Ret(r.exc, d, r.buf)
            ELSE IF r.val[1] < 128 THEN Ret("", Append(d, r.val[1]), r.buf)
            ELSE read_varint_loop(r.buf, i + 1, Append(d, r.val[1] % 128)))

\* a bit at position 32 or above is set
AboveBit31(d) == Digit(d, 5) >= 16 \/ \E j \in 6..Len(d) : d[j] # 0

\* the value after `if value & (1 << 31): value -= 1 << 32`, for a value
\* below 2^32
Signed32(d) ==
    LET lo == Digit(d, 1) + Digit(d, 2) * 128 + Digit(d, 3) * 16384
              + Digit(d, 4) * 2097152
        top == Digit(d, 5) % 16
    IN  IF top >= 8 THEN lo + (top - 16) * 268435456
        ELSE lo + top * 268435456

\* Buffer.read_varint(max_bits): a value of 2^32 or more stays above
\* value_max after the sign step and raises ValueError
read_varint(buf, max_bits) ==
    Bind(read_varint_loop(buf, 0, <<>>), LAMBDA r :
        IF r.exc # "" THEN Ret(r.exc, <<>>, r.buf)
        ELSE Bind(Signed32(r.val), LAMBDA value :
                IF AboveBit31(r.val) \/ ~InBits(value, max_bits)
                THEN Ret("ValueError", <<>>, r.buf)
                ELSE Ret("", <<value>>, r.buf)))

\* A Python int beyond 32 bits: <<c, x>> stands for c * 2^32 + x, with x
\* in [-2^31, 2^31 - 1]; <<0, x>> is x.
INT_MAX == 2147483647
INT_MIN == -2147483647 - 1

\* value + 1 and value - 1 on such a pair
Succ(v) == IF v[2] = INT_MAX THEN <<v[1] + 1, INT_MIN>> ELSE <<v[1], v[2] + 1>>
Pred(v) == IF v[2] = INT_MIN THEN <<v[1] - 1, INT_MAX>> ELSE <<v[1], v[2] - 1>>

\* Buffer.write_varint for a value <<c, x>>: with c # 0 the value is at
\* least 2^31 or below -2^31 and fails the range check for every max_bits
\* up to 32
write_varint_wide(buf, v, max_bits) ==
    IF v[1] # 0 THEN Ret("ValueError", <<>>, buf)
    ELSE write_varint(buf, v[2], max_bits)

\* Buffer.write_optional_varint(value); None is <<>>
write_optional_varint(buf, value) ==
    write_varint_wide(buf, IF value = <<>> THEN <<0, 0>> ELSE Succ(value), 32)

\* a read that returns 0 as None and every other value as it was written
read_optional_varint_keep(buf) ==
    Bind(read_varint(buf, 32), LAMBDA r :
        IF r.exc # "" THEN r
        ELSE IF r.val[1] = 0 THEN Ret("", <<>>, r.buf)
        ELSE Ret("", <<0, r.val[1]>>, r.buf))

\* Buffer.read_optional_varint
read_optional_varint(buf) ==
    Bind(read_varint(buf, 32), LAMBDA r :
        IF r.exc # "" THEN r
        ELSE IF r.val[1] = 0 THEN Ret("", <<>>, r.buf)
        ELSE Ret("", Pred(<<0, r.val[1]>>), r.buf))

---------------------------------------------------------------------------
(* Positions: a 64-bit word is held as its eight bytes, big-endian *)

\* to_twos_complement(num, bits) of write_position
to_twos_complement(num, bits) == IF num < 0 THEN num + 2 ^ bits ELSE num

\* from_twos_complement(num, bits) of read_position
from_twos_complement(num, bits) ==
    IF (num \div 2 ^ (bits - 1)) % 2 # 0 THEN num - 2 ^ bits ELSE num

\* the number of bits the x field is shifted by in write_position: + binds
\* tighter than <<, so  a << 38 + b << 12 + c  is  (a << (38 + b)) << (12 + c)
position_shift(x, y, z) ==
    38 + to_twos_complement(z, 26) + 12 + to_twos_complement(y, 12)

\* struct.pack(">Q", num << shift) for 0 <= num < 2^26: the eight bytes, or
\* <<>> when the word does not fit in 64 bits (struct.error)
pack_shifted(num, shift) ==
    IF num = 0 THEN Repeat(0, 8)
    ELSE IF shift > 63 \/ num >= 2 ^ (64 - shift) THEN <<>>
    ELSE [k \in 1..8 |->
            IF 8 - k < shift \div 8 THEN 0
            ELSE ((num * 2 ^ (shift % 8)) \div 256 ^ (8 - k - shift \div 8)) % 256]

\* Buffer.write_position(x, y, z)
write_position(buf, x, y, z) ==
    Bind(pack_shifted(to_twos_complement(x, 26), position_shift(x, y, z)),
         LAMBDA word :
            IF word = <<>> THEN Ret("struct.error", <<>>, buf)
            ELSE Ret("", <<>>, extend(buf, word)))

\* Buffer.read_position: data >> 38, data & 0xFFF, data >> 12 & 0x3FFFFFF of
\* the word read with read("Q")
read_position(buf) ==
    Bind(read_bytes(buf, 8), LAMBDA r :
        IF Len(r.val) # 8 THEN Ret("struct.error", <<>>, r.buf)
        ELSE Bind(r.val, LAMBDA b :
            Ret("",
                << from_twos_complement(
                      b[1] * 262144 + b[2] * 1024 + b[3] * 4 + b[4] \div 64, 26),
                   from_twos_complement((b[7] % 16) * 256 + b[8], 12),
                   from_twos_complement(
                      (b[4] % 64) * 1048576 + b[5] * 4096 + b[6] * 16
                      + b[7] \div 16, 26) >>,
                r.buf)))

---------------------------------------------------------------------------
(* Strings, JSON, bytes *)

\* Buffer.write_string: varint(len, max_bits=16) then the UTF-8 bytes (the
\* model's strings are ASCII, so str.encode is the byte string itself)
write_string(buf, s) ==
    Bind(write_varint(buf, Len(s), 16), LAMBDA r :
        IF r.exc # "" THEN r ELSE Ret("", <<>>, extend(r.buf, s)))

\* Buffer.read_string
read_string(buf) ==
    Bind(read_varint(buf, 16), LAMBDA n :
        IF n.exc # "" THEN n ELSE read_bytes(n.buf, n.val[1]))

\* JSON values of the model: 0 is None, 1 is {}
JsonValues == {0, 1}

\* json.dumps
json_dumps(j) == IF j = 0 THEN <<110, 117, 108, 108>> ELSE <<123, 125>>

\* json.loads: a text that is no JSON document raises JSONDecodeError
read_json(buf) ==
    Bind(read_string(buf), LAMBDA s :
        IF s.exc # "" THEN s
        ELSE IF \E j \in JsonValues : json_dumps(j) = s.val
        THEN Ret("", <<CHOOSE j \in JsonValues : json_dumps(j) = s.val>>, s.buf)
        ELSE Ret("JSONDecodeError", <<>>, s.buf))

write_json(buf, v) == write_string(buf, json_dumps(v[1]))

---------------------------------------------------------------------------
(* Packet classes of protocol 757 / v_1_18_1 (under packets/): id, state,   *)
(* direction(s), the fields pack writes and unpack reads, in order.        *)
(* Field kinds: "varint", "string", "H", "q", "uuid", "json", "chat",      *)
(* "lenbytes" (varint length then that many bytes), "pad20" (the constant  *)
(* string of 20 spaces LoginEncryptionRequest writes and skips), "rest"    *)
(* (write_bytes, read back with read_bytes()), "optrest" (the same through *)
(* write_optional / read_optional, None held as <<-1>>).                   *)

Class(id, state, sb, cb, fields, pack, unpack) ==
    [id |-> id, state |-> state, sb |-> sb, cb |-> cb, fields |-> fields,
     pack |-> pack, unpack |-> unpack]

\* HandshakeHandshake.pack of the packets.v_1_18_1.handshaking module the
\* tests import
HandshakeHasPack == TRUE

HandshakeHandshake ==
    Class(0, HANDSHAKING, TRUE, FALSE, <<"varint", "string", "H", "varint">>,
          HandshakeHasPack, TRUE)
StatusStatusRequest == Class(0, STATUS, TRUE, FALSE, <<>>, TRUE, TRUE)
StatusStatusResponse == Class(0, STATUS, FALSE, TRUE, <<"json">>, TRUE, TRUE)
StatusStatusPingPong == Class(1, STATUS, TRUE, TRUE, <<"q">>, TRUE, TRUE)
LoginStart == Class(0, LOGIN, TRUE, FALSE, <<"string">>, TRUE, TRUE)
LoginEncryptionRequest ==
    Class(1, LOGIN, FALSE, TRUE, <<"pad20", "lenbytes", "lenbytes">>, TRUE, TRUE)
LoginEncryptionResponse ==
    Class(1, LOGIN, TRUE, FALSE, <<"lenbytes", "lenbytes">>, TRUE, TRUE)
LoginSuccess == Class(2, LOGIN, FALSE, TRUE, <<"uuid", "string">>, TRUE, TRUE)
LoginDisconnect == Class(0, LOGIN, FALSE, TRUE, <<"chat">>, TRUE, TRUE)
LoginSetCompression == Class(3, LOGIN, FALSE, TRUE, <<"varint">>, TRUE, TRUE)
LoginPluginRequest ==
    Class(4, LOGIN, FALSE, TRUE, <<"varint", "string", "rest">>, TRUE, TRUE)
LoginPluginResponse ==
    Class(2, LOGIN, TRUE, FALSE, <<"varint", "optrest">>, TRUE, TRUE)
PlayTeleportConfirm == Class(0, PLAY, TRUE, FALSE, <<"varint">>, FALSE, TRUE)
PlayKeepAliveServerBound == Class(15, PLAY, TRUE, FALSE, <<"q">>, FALSE, TRUE)
PlayKeepAliveClientBound == Class(33, PLAY, FALSE, TRUE, <<"q">>, TRUE, FALSE)

\* the classes the modules export in __all__, which are the ones a packet
\* map registers; LoginPluginRequest and LoginPluginResponse are not exported
ClassNames ==
    {"HandshakeHandshake", "StatusStatusRequest", "StatusStatusResponse",
     "StatusStatusPingPong", "LoginStart", "LoginEncryptionRequest",
     "LoginEncryptionResponse", "LoginSuccess", "LoginDisconnect",
     "LoginSetCompression", "PlayTeleportConfirm", "PlayKeepAliveServerBound",
     "PlayKeepAliveClientBound"}

ClassOf(name) ==
    CASE name = "HandshakeHandshake" -> HandshakeHandshake
      [] name = "StatusStatusRequest" -> StatusStatusRequest
      [] name = "StatusStatusResponse" -> StatusStatusResponse
      [] name = "StatusStatusPingPong" -> StatusStatusPingPong
      [] name = "LoginStart" -> LoginStart
      [] name = "LoginEncryptionRequest" -> LoginEncryptionRequest
      [] name = "LoginEncryptionResponse" -> LoginEncryptionResponse
      [] name = "LoginSuccess" -> LoginSuccess
      [] name = "LoginDisconnect" -> LoginDisconnect
      [] name = "LoginSetCompression" -> LoginSetCompression
      [] name = "PlayTeleportConfirm" -> PlayTeleportConfirm
      [] name = "PlayKeepAliveServerBound" -> PlayKeepAliveServerBound
      [] name = "PlayKeepAliveClientBound" -> PlayKeepAliveClientBound
      [] name = "LoginPluginRequest" -> LoginPluginRequest
      [] name = "LoginPluginResponse" -> LoginPluginResponse

Packet(cls, args) == [cls |-> cls, args |-> args]
NoPacket == Packet("", <<>>)

\* the writer of one field
PackField(buf, kind, v) ==
    CASE kind = "varint" -> write_varint(buf, v[1], 32)
      [] kind = "string" -> write_string(buf, v)
      [] kind = "H" -> Ret("", <<>>, write(buf, "H", v))
      [] kind = "q" -> Ret("", <<>>, write(buf, "q", v))
      [] kind = "uuid" -> Ret("", <<>>, extend(buf, v))
      [] kind = "json" -> write_json(buf, v)
      [] kind = "chat" -> write_json(buf, v)
      [] kind = "lenbytes" ->
            Ret("", <<>>, extend(write_varint(buf, Len(v), 32).buf, v))
      [] kind = "rest" -> Ret("", <<>>, extend(buf, v))
      [] kind = "optrest" ->
            IF v = <<-1>> THEN Ret("", <<>>, write(buf, "?", <<0>>))
            ELSE Ret("", <<>>, extend(write(buf, "?", <<1>>), v))

\* the reader of one field
UnpackField(buf, kind) ==
    CASE kind = "varint" -> read_varint(buf, 32)
      [] kind = "string" -> read_string(buf)
      [] kind = "H" -> read(buf, "H")
      [] kind = "q" -> read(buf, "q")
      [] kind = "uuid" -> read_bytes(buf, 16)
      [] kind = "json" -> read_json(buf)
      [] kind = "chat" -> read_json(buf)
      [] kind = "lenbytes" ->
            Bind(read_varint(buf, 32), LAMBDA n :
                IF n.exc # "" THEN n ELSE read_bytes(n.buf, n.val[1]))
      [] kind = "rest" -> read_bytes_all(buf)
      [] kind = "optrest" ->
            Bind(read(buf, "?"), LAMBDA present :
                IF present.exc # "" THEN present
                ELSE IF present.val[1] # 0 THEN read_bytes_all(present.buf)
                ELSE Ret("", <<-1>>, present.buf))

RECURSIVE PackFields(_, _, _)
PackFields(buf, kinds, args) ==
    IF kinds = <<>> THEN Ret("", <<>>, buf)
    ELSE IF Head(kinds) = "pad20"
    THEN PackFields(write_string(buf, Repeat(32, 20)).buf, Tail(kinds), args)
    ELSE Bind(PackField(buf, Head(kinds), Head(args)), LAMBDA r :
            IF r.exc # "" THEN r ELSE PackFields(r.buf, Tail(kinds), Tail(args)))

RECURSIVE UnpackFields(_, _, _)
UnpackFields(buf, kinds, args) ==
    IF kinds = <<>> THEN Ret("", args, buf)
    ELSE Bind(IF Head(kinds) = "pad20" THEN read_string(buf)
              ELSE UnpackField(buf, Head(kinds)), LAMBDA r :
            IF r.exc # "" THEN Ret(r.exc, <<>>, r.buf)
            ELSE UnpackFields(r.buf, Tail(kinds),
                              IF Head(kinds) = "pad20" THEN args
                              ELSE Append(args, r.val)))

\* packet.pack(): the payload after the id, NotImplementedError for a
\* serverbound class that defines no pack (types/packet.py)
pack(packet) ==
    IF ~ClassOf(packet.cls).pack THEN [exc |-> "NotImplementedError", val |-> <<>>]
    ELSE Bind(PackFields(Buffer(<<>>), ClassOf(packet.cls).fields, packet.args),
              LAMBDA r : [exc |-> r.exc, val |-> r.buf.data])

\* cls.unpack(buf), NotImplementedError for a clientbound class that defines
\* no unpack (types/packet.py)
unpack(cls, buf) ==
    IF ~ClassOf(cls).unpack THEN [exc |-> "NotImplementedError", pkt |-> NoPacket]
    ELSE Bind(UnpackFields(buf, ClassOf(cls).fields, <<>>), LAMBDA r :
            IF r.exc # "" THEN [exc |-> r.exc, pkt |-> NoPacket]
            ELSE [exc |-> "", pkt |-> Packet(cls, r.val)])

---------------------------------------------------------------------------
(* zlib.  The deflate coding is replaced by a stored body between the real *)
(* two-byte header and the real Adler-32 trailer: compress is injective    *)
(* and changes the length, decompress inverts it and raises zlib.error on  *)
(* bytes that are no such stream.                                          *)

\* the running sums of zlib.adler32: a over the bytes, b over the values of a
RECURSIVE AdlerSums(_, _, _)
AdlerSums(data, a, b) ==
    IF data = <<>> THEN <<a, b>>
    ELSE LET a2 == (a + Head(data)) % 65521
         IN  AdlerSums(Tail(data), a2, (b + a2) % 65521)

Adler32(data) ==
    Bind(AdlerSums(data, 1, 0), LAMBDA ab :
        <<ab[2] \div 256, ab[2] % 256, ab[1] \div 256, ab[1] % 256>>)

zlib_compress(data) == <<120, 156>> \o data \o Adler32(data)

zlib_decompress(bs) ==
    LET body == SubSeq(bs, 3, Len(bs) - 4)
    IN  IF Len(bs) >= 6 /\ SubSeq(bs, 1, 2) = <<120, 156>>
           /\ SubSeq(bs, Len(bs) - 3, Len(bs)) = Adler32(body)
        THEN [exc |-> "", val |-> body]
        ELSE [exc |-> "zlib.error", val |-> <<>>]

---------------------------------------------------------------------------
(* types/nbt.py.  A tag is a record [id, name, data]: name is the bytes of *)
(* the name (empty for None), data is <<v>> for a number, the bytes of a   *)
(* string or byte array, a sequence of <<v>> for an int or long array and  *)
(* a sequence of tags for a list or compound.  gzip is modelled like zlib  *)
(* above: the ten-byte header of a gzip member, the data stored, a         *)
(* checksum of the data and its length; the checksum is computed with the  *)
(* sums of Adler-32 in place of CRC-32.                                    *)

Tag(id, name, data) == [id |-> id, name |-> name, data |-> data]

\* the struct format of TAG_Short .. TAG_Double and of array elements
TagFormat(id) ==
    CASE id = 1 -> "b" [] id = 2 -> "h" [] id = 3 -> "i" [] id = 4 -> "q"
      [] id = 5 -> "f" [] id = 6 -> "d" [] id = 11 -> "i" [] id = 12 -> "q"

\* b"".join(parts)
RECURSIVE Join(_)
Join(parts) == IF parts = <<>> THEN <<>> ELSE Head(parts) \o Join(Tail(parts))

\* dict([(t.name, t) for t in data]): a name keeps the place of its first
\* tag and the value of its last
RECURSIVE CompoundDict(_)
CompoundDict(data) ==
    IF data = <<>> THEN <<>>
    ELSE Bind(SelectSeq(data, LAMBDA t : t.name = Head(data).name), LAMBDA same :
            <<same[Len(same)]>>
            \o CompoundDict(SelectSeq(data, LAMBDA t : t.name # Head(data).name)))

\* TAG.pack_name; TAG_End has none
pack_name(tag) ==
    IF tag.id = 0 THEN <<>> ELSE struct_pack("H", <<Len(tag.name)>>) \o tag.name

\* TAG_x.pack_data and TAG.pack (with_header)
RECURSIVE pack_tag(_, _)
pack_tag(tag, with_header) ==
    (IF with_header THEN <<tag.id>> \o pack_name(tag) ELSE <<>>) \o
    CASE tag.id = 0 -> <<>>
      [] tag.id \in 1..4 -> struct_pack(TagFormat(tag.id), tag.data)
      [] tag.id = 7 -> struct_pack("i", <<Len(tag.data)>>) \o tag.data
      [] tag.id = 8 -> struct_pack("H", <<Len(tag.data)>>) \o tag.data
      [] tag.id = 9 ->
            IF Len(tag.data) > 0
            THEN struct_pack("b", <<tag.data[1].id>>)
                 \o struct_pack("i", <<Len(tag.data)>>)
                 \o Join([k \in DOMAIN tag.data |-> pack_tag(tag.data[k], FALSE)])
            ELSE struct_pack("b", <<0>>) \o struct_pack("i", <<0>>)
      [] tag.id = 10 ->
            Join([k \in DOMAIN tag.data |-> pack_tag(tag.data[k], TRUE)]) \o <<0>>
      [] tag.id \in {11, 12} ->
            struct_pack("i", <<Len(tag.data)>>)
            \o Join([k \in DOMAIN tag.data |->
                        struct_pack(TagFormat(tag.id), tag.data[k])])

\* TYPES[t] for the byte t read with "b": a negative index counts from the
\* end of the list of thirteen classes, -1 stands for IndexError
TYPES(t) == IF t >= 13 \/ t < -13 THEN -1 ELSE t % 13

\* unpack_name: buf.read_bytes(buf.read("H"))
unpack_name(buf) ==
    Bind(read(buf, "H"), LAMBDA n :
        IF n.exc # "" THEN n ELSE read_bytes(n.buf, n.val[1]))

\* TAG_x.unpack_data: mode "data" reads one payload of the class id; mode
\* "list" reads count payloads of the class id (the comprehension of
\* TAG_List, none for count < 0), mode "array" count numbers, and mode
\* "compound" tags with id and name up to TAG_End
RECURSIVE unpack_data(_, _, _, _, _)
unpack_data(mode, id, count, buf, out) ==
    CASE mode = "list" ->
            IF count <= 0 THEN Ret("", out, buf)
            ELSE Bind(unpack_data("data", id, 0, buf, <<>>), LAMBDA e :
                    IF e.exc # "" THEN e
                    ELSE unpack_data("list", id, count - 1, e.buf,
                                     Append(out, Tag(id, <<>>, e.val))))
      [] mode = "array" ->
            IF count <= 0 THEN Ret("", out, buf)
            ELSE Bind(read(buf, TagFormat(id)), LAMBDA e :
                    IF e.exc # "" THEN e
                    ELSE unpack_data("array", id, count - 1, e.buf,
                                     Append(out, e.val)))
      [] mode = "compound" ->
            Bind(read(buf, "b"), LAMBDA t :
                IF t.exc # "" THEN t
                ELSE IF TYPES(t.val[1]) = -1 THEN Ret("IndexError", <<>>, t.buf)
                ELSE IF TYPES(t.val[1]) = 0 THEN Ret("", out, t.buf)
                ELSE Bind(unpack_name(t.buf), LAMBDA n :
                        IF n.exc # "" THEN n
                        ELSE Bind(unpack_data("data", TYPES(t.val[1]), 0, n.buf, <<>>),
                                  LAMBDA d :
                            IF d.exc # "" THEN d
                            ELSE unpack_data("compound", 0, 0, d.buf,
                                    Append(out, Tag(TYPES(t.val[1]), n.val, d.val))))))
      [] mode = "data" ->
            CASE id = 0 -> Ret("", <<>>, buf)
              [] id = 1 -> read_byte(buf)
              [] id \in 2..6 -> read(buf, TagFormat(id))
              [] id = 7 ->
                    Bind(read(buf, "i"), LAMBDA n :
                        IF n.exc # "" THEN n ELSE read_bytes(n.buf, n.val[1]))
              [] id = 8 -> unpack_name(buf)
              [] id = 9 ->
                    Bind(read(buf, "b"), LAMBDA t :
                        IF t.exc # "" THEN t
                        ELSE IF TYPES(t.val[1]) = -1 THEN Ret("IndexError", <<>>, t.buf)
                        ELSE Bind(read(t.buf, "i"), LAMBDA n :
                            IF n.exc # "" THEN n
                            ELSE unpack_data("list", TYPES(t.val[1]), n.val[1],
                                             n.buf, <<>>)))
              [] id = 10 ->
                    Bind(unpack_data("compound", 0, 0, buf, <<>>), LAMBDA c :
                        IF c.exc # "" THEN c
                        ELSE Ret("", CompoundDict(c.val), c.buf))
              [] id \in {11, 12} ->
                    Bind(read(buf, "i"), LAMBDA n :
                        IF n.exc # "" THEN n
                        ELSE unpack_data("array", id, n.val[1], n.buf, <<>>))

gzip_compress(data) ==
    <<31, 139, 8, 0, 0, 0, 0, 0, 2, 255>> \o data \o Adler32(data)
    \o struct_pack("i", <<Len(data)>>)

\* gzip.decompress: b"" for b"", BadGzipFile for bytes that do not start
\* with the magic number or whose checksum fails, EOFError for a member
\* that is cut short
gzip_decompress(bs) ==
    IF bs = <<>> THEN [exc |-> "", val |-> <<>>]
    ELSE IF PySlice(bs, 0, 2) # <<31, 139>> THEN [exc |-> "BadGzipFile", val |-> <<>>]
    ELSE IF Len(bs) < 18 THEN [exc |-> "EOFError", val |-> <<>>]
    ELSE Bind(SubSeq(bs, 11, Len(bs) - 8), LAMBDA body :
            IF SubSeq(bs, Len(bs) - 7, Len(bs))
               = Adler32(body) \o struct_pack("i", <<Len(body)>>)
            THEN [exc |-> "", val |-> body]
            ELSE [exc |-> "BadGzipFile", val |-> <<>>])

\* nbt.unpack(buf) with root_is_full: the id byte of the root is read and
\* not looked at
nbt_unpack(buf) ==
    Bind(gzip_decompress(buf.data), LAMBDA g :
        IF g.exc \notin {"", "BadGzipFile"} THEN Ret(g.exc, <<>>, buf)
        ELSE Bind(IF g.exc = "" THEN Buffer(g.val) ELSE buf, LAMBDA b :
             Bind(read_byte(b), LAMBDA i :
                IF i.exc # "" THEN i
                ELSE Bind(unpack_name(i.buf), LAMBDA n :
                    IF n.exc # "" THEN n
                    ELSE Bind(unpack_data("data", 10, 0, n.buf, <<>>), LAMBDA d :
                        IF d.exc # "" THEN d
                        ELSE Ret("", Tag(10, n.val, d.val), d.buf))))))

\* Buffer.read_nbt: nbt.unpack(self[self.pos:]); the slice of a Buffer is a
\* plain bytearray, which has neither read_byte nor write_bytes, and the
\* Buffer itself is not touched
read_nbt(buf) ==
    Bind(gzip_decompress(PySlice(buf.data, buf.pos, Len(buf.data))), LAMBDA g :
        Ret(IF g.exc \in {"", "BadGzipFile"} THEN "AttributeError" ELSE g.exc,
            <<>>, buf))

\* None where a tag is expected
NoneTag == Tag(-1, <<>>, <<>>)

\* Buffer.write_nbt(value), value a tag or None: write_byte(0) for None
write_nbt(buf, value) ==
    IF value.id = -1 THEN extend(buf, struct_pack("b", <<0>>))
    ELSE extend(buf, pack_tag(value, TRUE))

---------------------------------------------------------------------------
(* Entity metadata: Buffer.write_entity_metadata and the writers of its    *)
(* switch dict.  A float is given as the whole number it equals.           *)

\* Buffer.write_chat(value): value.data as JSON
write_chat(buf, value) == write_json(buf, value)

\* Buffer.write_optional(writer, value) up to the call of writer; None is <<>>
write_optional(buf, value) == write(buf, "?", <<IF value = <<>> THEN 0 ELSE 1>>)

\* Buffer.write_uuid(value): value.bytes
write_uuid(buf, value) == extend(buf, value)

\* Buffer.write_slot(item_id, count, tag); item_id None is <<>>
write_slot(buf, item_id, count, tag) ==
    IF item_id = <<>> THEN Ret("", <<>>, write(buf, "?", <<0>>))
    ELSE Bind(write_varint(write(buf, "?", <<1>>), item_id[1], 32), LAMBDA r :
            IF r.exc # "" THEN r
            ELSE Ret("", <<>>, write_nbt(write(r.buf, "b", <<count>>), tag)))

\* Buffer.write_rotation(x, y, z)
write_rotation(buf, x, y, z) ==
    extend(buf, struct_pack("f", <<x>>) \o struct_pack("f", <<y>>)
                \o struct_pack("f", <<z>>))

\* Buffer.write_direction(value), Buffer.write_pose(value): value.value
write_direction(buf, value) == write_varint(buf, value, 32)
write_pose(buf, value) == write_varint(buf, value, 32)

\* Buffer.write_villager(kind, profession, level)
write_villager(buf, kind, profession, level) ==
    Bind(write_varint(buf, kind, 32), LAMBDA a :
        IF a.exc # "" THEN a
        ELSE Bind(write_varint(a.buf, profession, 32), LAMBDA b :
            IF b.exc # "" THEN b ELSE write_varint(b.buf, level, 32)))

\* Buffer.write_particle(**value)
write_particle(buf, value) ==
    IF value.particle_id \in {3, 23} THEN write_varint(buf, value.block_state, 32)
    ELSE IF value.particle_id = 14
    THEN Ret("", <<>>, extend(buf, struct_pack("f", <<value.red>>)
                                   \o struct_pack("f", <<value.green>>)
                                   \o struct_pack("f", <<value.blue>>)
                                   \o struct_pack("f", <<value.scale>>)))
    ELSE IF value.particle_id = 32
    THEN write_slot(buf, value.item.item_id, value.item.count, value.item.tag)
    ELSE Ret("", <<>>, buf)

\* Buffer.write_block(value)
write_block(buf, value) == Ret("NotImplementedError", <<>>, buf)

\* _f_10 of write_entity_metadata; None is <<>>
f_10(buf, v) ==
    IF v = <<>> THEN Ret("", <<>>, write_optional(buf, v))
    ELSE write_position(write_optional(buf, v), v[1], v[2], v[3])

\* sw[t](v): the switch dict of write_entity_metadata
sw(buf, t, v) ==
    CASE t = 0 -> Ret("", <<>>, write(buf, "b", v))
      [] t = 1 -> write_varint(buf, v[1], 32)
      [] t = 2 -> Ret("", <<>>, write(buf, "f", v))
      [] t = 3 -> write_string(buf, v)
      [] t = 4 -> write_chat(buf, v)
      [] t = 5 -> IF v = <<>> THEN Ret("", <<>>, write_optional(buf, v))
                  ELSE write_chat(write_optional(buf, v), v)
      [] t = 6 -> write_slot(buf, v.item_id, v.count, v.tag)
      [] t = 7 -> Ret("", <<>>, write(buf, "?", v))
      [] t = 8 -> Ret("", <<>>, write_rotation(buf, v[1], v[2], v[3]))
      [] t = 9 -> Ret("", <<>>, write_rotation(buf, v[1], v[2], v[3]))
      [] t = 10 -> f_10(buf, v)
      [] t = 11 -> write_direction(buf, v[1])
      [] t = 12 -> Ret("", <<>>, IF v = <<>> THEN write_optional(buf, v)
                                 ELSE write_uuid(write_optional(buf, v), v))
      [] t = 13 -> write_block(buf, v)
      [] t = 14 -> Ret("", <<>>, write_nbt(buf, v))
      [] t = 15 -> write_particle(buf, v)
      [] t = 16 -> write_villager(buf, v[1], v[2], v[3])
      [] t = 17 -> write_optional_varint(buf, v)
      [] t = 18 -> write_pose(buf, v[1])
      [] OTHER -> Ret("KeyError", <<>>, buf)

\* Buffer.write_entity_metadata(value): value is the sequence of the
\* dict's items, each with the index and type of its key
RECURSIVE write_entity_metadata(_, _)
write_entity_metadata(buf, value) ==
    IF value = <<>> THEN Ret("", <<>>, extend(buf, <<254>>))
    ELSE Bind(write_varint(write(buf, "B", <<Head(value).index>>),
                           Head(value).type, 32), LAMBDA h :
         IF h.exc # "" THEN h
         ELSE Bind(sw(h.buf, Head(value).type, Head(value).v), LAMBDA p :
            IF p.exc # "" THEN p
            ELSE write_entity_metadata(p.buf, Tail(value))))

---------------------------------------------------------------------------
(* types/packet_map.py, packets/__init__.py: the registry *)

\* the classes load_packet_map collects for a state, in the order the
\* modules' __all__ name them
PacketClasses(state) ==
    CASE state = HANDSHAKING -> <<"HandshakeHandshake">>
      [] state = STATUS ->
            <<"StatusStatusRequest", "StatusStatusResponse", "StatusStatusPingPong">>
      [] state = LOGIN ->
            <<"LoginStart", "LoginEncryptionRequest", "LoginEncryptionResponse",
              "LoginSuccess", "LoginDisconnect", "LoginSetCompression">>
      [] state = PLAY ->
            <<"PlayKeepAliveClientBound", "PlayKeepAliveServerBound",
              "PlayTeleportConfirm">>

IsServerBound(name) == ClassOf(name).sb
IsClientBound(name) == ClassOf(name).cb

\* {p.id: p for p in packets}: a later class replaces an earlier one with
\* the same id
DictById(names) ==
    [i \in {ClassOf(names[k]).id : k \in DOMAIN names} |->
        names[CHOOSE k \in DOMAIN names :
                /\ ClassOf(names[k]).id = i
                /\ \A j \in DOMAIN names : ClassOf(names[j]).id = i => j <= k]]

\* a protocol handle: an int (a version number), a str (an import name) or
\* None
ProtocolInt(n) == [kind |-> "int", n |-> n, s |-> ""]
ProtocolStr(s) == [kind |-> "str", n |-> 0, s |-> s]
None == [kind |-> "None", n |-> 0, s |-> ""]

\* fields of DuplicatePacketIdError; NoDuplicate when none was raised
DuplicatePacketId(protocol, state, packet_id, direction) ==
    [protocol |-> protocol, state |-> state, packet_id |-> packet_id,
     direction |-> direction]
NoDuplicate == DuplicatePacketId(None, -1, -1, "")

\* the first key of {p.id: p for p in packets} for which
\* [p for p in packets if p.id == packet_id] holds more than one class,
\* as a set: empty when there is none.  The keys of a dict are in the order
\* in which the ids first occur in packets.
FirstDuplicate(packets) ==
    Bind({k \in DOMAIN packets :
            \E j \in DOMAIN packets :
                j > k /\ ClassOf(packets[j]).id = ClassOf(packets[k]).id},
         LAMBDA dup :
            {ClassOf(packets[k]).id : k \in {k \in dup : \A j \in dup : k <= j}})

StatePacketMap(state, server_bound, client_bound) ==
    [state |-> state, server_bound |-> server_bound, client_bound |-> client_bound]

\* StatePacketMap.from_list(state, packets, check_duplicates=...)
StatePacketMap_from_list(state, packets, check_duplicates) ==
    Bind(StatePacketMap(state, DictById(SelectSeq(packets, IsServerBound)),
                        DictById(SelectSeq(packets, IsClientBound))), LAMBDA self :
    Bind(FirstDuplicate(SelectSeq(packets, IsServerBound)), LAMBDA sb :
    Bind(FirstDuplicate(SelectSeq(packets, IsClientBound)), LAMBDA cb :
        IF check_duplicates /\ sb # {}
        THEN [exc |-> "DuplicatePacketIdError", map |-> <<>>,
              err |-> DuplicatePacketId(ProtocolStr("unknown"), state,
                                        CHOOSE i \in sb : TRUE, SERVERBOUND)]
        ELSE IF check_duplicates /\ cb # {}
        THEN [exc |-> "DuplicatePacketIdError", map |-> <<>>,
              err |-> DuplicatePacketId(ProtocolStr("unknown"), state,
                                        CHOOSE i \in cb : TRUE, CLIENTBOUND)]
        ELSE [exc |-> "", map |-> self, err |-> NoDuplicate])))

\* PacketMap.packets as load_packet_map builds it
PacketMap_packets ==
    [s \in GameState |-> StatePacketMap_from_list(s, PacketClasses(s), FALSE).map]

\* the protocol the tests load
TESTING_PROTOCOL == 757

\* the StatePacketMap results of the states in the order of GameState,
\* up to the first that raised
RECURSIVE LoadStates(_, _, _)
LoadStates(state, classes, debug) ==
    IF state > PLAY THEN <<>>
    ELSE Bind(StatePacketMap_from_list(state, classes[state], debug), LAMBDA m :
            IF m.exc # "" THEN <<m>>
            ELSE <<m>> \o LoadStates(state + 1, classes, debug))

Loaded(exc, protocol, packets, err) ==
    [exc |-> exc, protocol |-> protocol, packets |-> packets, err |-> err]

\* packets/__init__.py load_packet_map(protocol, debug=...).  classes[state]
\* is the list of Packet classes the modules of the state's directory
\* yield, in the order os.listdir and __all__ give them.  The handle is
\* kept as given.
load_packet_map(protocol, debug, classes) ==
    Bind(LoadStates(HANDSHAKING, classes, debug), LAMBDA ms :
    Bind(ms[Len(ms)], LAMBDA m :
        IF m.exc # ""
        THEN Loaded(m.exc, protocol, <<>>,
                    DuplicatePacketId(protocol, m.err.state, m.err.packet_id,
                                      m.err.direction))
        ELSE Loaded("", protocol, [s \in GameState |-> ms[s + 1].map], NoDuplicate)))

\* packets/packet_map.py: PROTOCOL_MAP
PROTOCOL_MAP(n) == IF n = 757 THEN ProtocolStr("v_1_18_1") ELSE None

\* packets/packet_map.py walk_packet_classes: pkgutil.walk_packages is given
\* the directory as a str, not as a list of paths, and raises ValueError
walk_packet_classes(protocol_name, state, debug) ==
    [exc |-> "ValueError", val |-> <<>>]

\* packets/packet_map.py load_packet_map(protocol, debug=...): an int is
\* replaced by its import name in PROTOCOL_MAP, KeyError when it has none;
\* the classes of the first state are then walked
packet_map_load_packet_map(protocol, debug) ==
    Bind(IF protocol.kind = "int" THEN PROTOCOL_MAP(protocol.n) ELSE protocol,
         LAMBDA name :
        IF name = None THEN Loaded("KeyError", protocol, <<>>, NoDuplicate)
        ELSE Bind(walk_packet_classes(name, HANDSHAKING, debug), LAMBDA w :
                Loaded(w.exc, name, <<>>, NoDuplicate)))

\* PacketMap.protocol of the map the endpoints are given
PacketMap_protocol ==
    load_packet_map(ProtocolInt(TESTING_PROTOCOL), FALSE,
                    [s \in GameState |-> PacketClasses(s)]).protocol

\* packet_map[direction, state, packet_id], the lookup the endpoints call:
\* the class registered for the triple, KeyError when there is none
PacketMap_getitem(direction, state, packet_id) ==
    Bind(IF direction = SERVERBOUND
         THEN PacketMap_packets[state].server_bound
         ELSE PacketMap_packets[state].client_bound, LAMBDA d :
        IF packet_id \in DOMAIN d THEN [exc |-> "", cls |-> d[packet_id]]
        ELSE [exc |-> "KeyError", cls |-> ""])

---------------------------------------------------------------------------
(* Framing: net/server.py, net/client.py, types/packet_map.py *)

\* default of the compression_threshold parameter (client.py, packet_map.py)
DefaultThreshold == -1

Endpoint(state, threshold) == [state |-> state, compression_threshold |-> threshold]

Encoded(exc, val) == [exc |-> exc, val |-> val]

\* the encoder with the threshold compared by > instead of >=
server_encode_packet_gt(self, packet) ==
    Bind(pack(packet), LAMBDA p :
        IF p.exc # "" THEN Encoded(p.exc, <<>>)
        ELSE Bind(Varint(ClassOf(packet.cls).id) \o p.val, LAMBDA buf :
             Bind(IF self.compression_threshold >= 1
                  THEN IF Len(buf) > self.compression_threshold
                       THEN Varint(Len(buf)) \o zlib_compress(buf)
                       ELSE Varint(0) \o buf
                  ELSE buf, LAMBDA framed :
                Encoded("", Varint(Len(framed)) \o framed))))

\* AbstractProtocolServerClient._encode_packet
server_encode_packet(self, packet) ==
    Bind(pack(packet), LAMBDA p :
        IF p.exc # "" THEN Encoded(p.exc, <<>>)
        ELSE Bind(Varint(ClassOf(packet.cls).id) \o p.val, LAMBDA buf :
             Bind(IF self.compression_threshold >= 1
                  THEN IF Len(buf) >= self.compression_threshold
                       THEN Varint(Len(buf)) \o zlib_compress(buf)
                       ELSE Varint(0) \o buf
                  ELSE buf, LAMBDA framed :
                Encoded("", Varint(Len(framed)) \o framed))))

\* AbstractProtocolClient._encode_packet (a staticmethod: the threshold is
\* its parameter, not the endpoint's field)
client_encode_packet(packet, compression_threshold) ==
    Bind(pack(packet), LAMBDA p :
        IF p.exc # "" THEN Encoded(p.exc, <<>>)
        ELSE Bind(Varint(ClassOf(packet.cls).id) \o p.val, LAMBDA buf :
             Bind(IF compression_threshold >= 1
                  THEN IF Len(buf) >= compression_threshold
                       THEN Varint(Len(buf)) \o zlib_compress(buf)
                       ELSE Varint(0) \o buf
                  ELSE buf, LAMBDA framed :
                Encoded("", Varint(Len(framed)) \o framed))))

\* PacketMap.encode_packet
PacketMap_encode_packet(packet, compression_threshold) ==
    Bind(pack(packet), LAMBDA p :
        IF p.exc # "" THEN Encoded(p.exc, <<>>)
        ELSE Bind(Varint(ClassOf(packet.cls).id) \o p.val, LAMBDA buf :
             Bind(IF compression_threshold >= 1
                  THEN IF Len(buf) >= compression_threshold
                       THEN Varint(Len(buf)) \o zlib_compress(buf)
                       ELSE Varint(0) \o buf
                  ELSE buf, LAMBDA framed :
                Encoded("", Varint(Len(framed)) \o framed))))

\* fields of UnknownPacketIdError; NoError when none was raised
UnknownPacketId(protocol, state, packet_id, direction) ==
    [protocol |-> protocol, state |-> state, packet_id |-> packet_id,
     direction |-> direction]
NoError == UnknownPacketId(None, -1, -1, "")

Decoded(exc, p, self, err) == [exc |-> exc, pkt |-> p, self |-> self, err |-> err]

\* the block "decompress packet if necessary" of the three decoders
decompress_if_necessary(buf, threshold) ==
    IF threshold >= 0
    THEN Bind(read_varint(buf, 32), LAMBDA u :
            IF u.exc # "" THEN [exc |-> u.exc, buf |-> u.buf]
            ELSE IF u.val[1] > 0
            THEN Bind(zlib_decompress(read_bytes_all(u.buf).val), LAMBDA z :
                    IF z.exc # "" THEN [exc |-> z.exc, buf |-> u.buf]
                    ELSE [exc |-> "", buf |-> Buffer(z.val)])
            ELSE [exc |-> "", buf |-> u.buf])
    ELSE [exc |-> "", buf |-> buf]

\* the decoder looking the id up in the map of the opposite direction
server_decode_packet_clientbound(self, buf) ==
    Bind(decompress_if_necessary(buf, self.compression_threshold), LAMBDA d :
    IF d.exc # "" THEN Decoded(d.exc, NoPacket, self, NoError)
    ELSE Bind(read_varint(d.buf, 32), LAMBDA i :
    IF i.exc # "" THEN Decoded(i.exc, NoPacket, self, NoError)
    ELSE Bind(PacketMap_getitem(CLIENTBOUND, self.state, i.val[1]), LAMBDA c :
    IF c.exc # ""
    THEN Decoded("UnknownPacketIdError", NoPacket, self,
                 UnknownPacketId(PacketMap_protocol, self.state, i.val[1], SERVERBOUND))
    ELSE Bind(unpack(c.cls, i.buf), LAMBDA u :
        Decoded(u.exc, u.pkt, self, NoError)))))

\* AbstractProtocolServerClient._decode_packet; self is returned as the
\* method leaves it
server_decode_packet(self, buf) ==
    Bind(decompress_if_necessary(buf, self.compression_threshold), LAMBDA d :
    IF d.exc # "" THEN Decoded(d.exc, NoPacket, self, NoError)
    ELSE Bind(read_varint(d.buf, 32), LAMBDA i :
    IF i.exc # "" THEN Decoded(i.exc, NoPacket, self, NoError)
    ELSE Bind(PacketMap_getitem(SERVERBOUND, self.state, i.val[1]), LAMBDA c :
    IF c.exc # ""
    THEN Decoded("UnknownPacketIdError", NoPacket, self,
                 UnknownPacketId(PacketMap_protocol, self.state, i.val[1], SERVERBOUND))
    ELSE Bind(unpack(c.cls, i.buf), LAMBDA u :
        Decoded(u.exc, u.pkt, self, NoError)))))

\* the decoder applying a decoded LoginSetCompression to its own endpoint
client_decode_packet_applying(self, buf) ==
    Bind(decompress_if_necessary(buf, self.compression_threshold), LAMBDA d :
    IF d.exc # "" THEN Decoded(d.exc, NoPacket, self, NoError)
    ELSE Bind(read_varint(d.buf, 32), LAMBDA i :
    IF i.exc # "" THEN Decoded(i.exc, NoPacket, self, NoError)
    ELSE Bind(PacketMap_getitem(CLIENTBOUND, self.state, i.val[1]), LAMBDA c :
    IF c.exc # ""
    THEN Decoded("UnknownPacketIdError", NoPacket, self,
                 UnknownPacketId(None, self.state, i.val[1], CLIENTBOUND))
    ELSE Bind(unpack(c.cls, i.buf), LAMBDA u :
        IF u.exc = "" /\ u.pkt.cls = "LoginSetCompression"
        THEN Decoded(u.exc, u.pkt, Endpoint(self.state, u.pkt.args[1][1]), NoError)
        ELSE Decoded(u.exc, u.pkt, self, NoError)))))

\* AbstractProtocolClient._decode_packet
client_decode_packet(self, buf) ==
    Bind(decompress_if_necessary(buf, self.compression_threshold), LAMBDA d :
    IF d.exc # "" THEN Decoded(d.exc, NoPacket, self, NoError)
    ELSE Bind(read_varint(d.buf, 32), LAMBDA i :
    IF i.exc # "" THEN Decoded(i.exc, NoPacket, self, NoError)
    ELSE Bind(PacketMap_getitem(CLIENTBOUND, self.state, i.val[1]), LAMBDA c :
    IF c.exc # ""
    THEN Decoded("UnknownPacketIdError", NoPacket, self,
                 UnknownPacketId(None, self.state, i.val[1], CLIENTBOUND))
    ELSE Bind(unpack(c.cls, i.buf), LAMBDA u :
        Decoded(u.exc, u.pkt, self, NoError)))))

\* PacketMap.decode_packet(buf, state, compression_threshold): the
\* serverbound map of the state
PacketMap_decode_packet(buf, state, compression_threshold) ==
    Bind(Endpoint(state, compression_threshold), LAMBDA self :
    Bind(decompress_if_necessary(buf, compression_threshold), LAMBDA d :
    IF d.exc # "" THEN Decoded(d.exc, NoPacket, self, NoError)
    ELSE Bind(read_varint(d.buf, 32), LAMBDA i :
    IF i.exc # "" THEN Decoded(i.exc, NoPacket, self, NoError)
    ELSE Bind(PacketMap_packets[state].server_bound, LAMBDA sb :
    IF i.val[1] \notin DOMAIN sb
    THEN Decoded("UnknownPacketIdError", NoPacket, self,
                 UnknownPacketId(PacketMap_protocol, state, i.val[1], SERVERBOUND))
    ELSE Bind(unpack(sb[i.val[1]], i.buf), LAMBDA u :
        Decoded(u.exc, u.pkt, self, NoError))))))

---------------------------------------------------------------------------
(* Byte streams: net/socket/tcp/stream.py, net/asyncio/tcp/stream.py.      *)
(* A stream is the sequence of bytes received and not yet read.            *)

\* SocketTCPStream.read_varint / AsyncTCPStream.read_varint.  The first
\* pass of the loop reads one byte with self.read(1) / readexactly(1) and
\* binds byte to the 1-tuple struct.unpack returns; `byte & 0x7F` on a
\* tuple raises TypeError, so the call never returns a length.
stream_read_varint(stream) ==
    [exc |-> "TypeError", val |-> <<>>, stream |-> Tail(stream)]

\* SocketTCPStream.read(length) / AsyncTCPStream.readexactly(length): the
\* next length bytes of the stream
stream_read(stream, length) ==
    [val |-> SubSeq(stream, 1, length),
     stream |-> SubSeq(stream, length + 1, Len(stream))]

Received(exc, p, self, stream, err) ==
    [exc |-> exc, pkt |-> p, self |-> self, stream |-> stream, err |-> err]

\* read_packet of the per-connection server endpoint
\* (SocketProtocolServerClient, AsyncProtocolServerClient).  The socket
\* stream hands _decode_packet a bytearray, which has no read_varint.
server_read_packet(self, kind, stream) ==
    Bind(stream_read_varint(stream), LAMBDA length :
    IF length.exc # ""
    THEN Received(length.exc, NoPacket, self, length.stream, NoError)
    ELSE Bind(stream_read(length.stream, length.val[1]), LAMBDA body :
    IF kind = "socket"
    THEN Received("AttributeError", NoPacket, self, body.stream, NoError)
    ELSE Bind(server_decode_packet(self, Buffer(body.val)), LAMBDA d :
        Received(d.exc, d.pkt, d.self, body.stream, d.err))))

\* read_packet of the client endpoint (SocketTCPClient, AsyncProtocolClient)
client_read_packet(self, kind, stream) ==
    Bind(stream_read_varint(stream), LAMBDA length :
    IF length.exc # ""
    THEN Received(length.exc, NoPacket, self, length.stream, NoError)
    ELSE Bind(stream_read(length.stream, length.val[1]), LAMBDA body :
    IF kind = "socket"
    THEN Received("AttributeError", NoPacket, self, body.stream, NoError)
    ELSE Bind(client_decode_packet(self, Buffer(body.val)), LAMBDA d :
        Received(d.exc, d.pkt, d.self, body.stream, d.err))))

---------------------------------------------------------------------------
(* Packets the model constructs *)

Strings == {Repeat(108, n) : n \in 0..MaxStrLen}

Packets ==
    {Packet("HandshakeHandshake", <<<<757>>, a, <<12345>>, <<n>>>>) :
        a \in Strings, n \in GameState}
    \cup {Packet("StatusStatusRequest", <<>>)}
    \cup {Packet("StatusStatusResponse", <<<<j>>>>) : j \in JsonValues}
    \cup {Packet("StatusStatusPingPong", <<<<v>>>>) : v \in {0, 1234567890, -1}}
    \cup {Packet("LoginStart", <<u>>) : u \in Strings}
    \cup {Packet("LoginSuccess", <<Repeat(0, 16), u>>) : u \in Strings}
    \cup {Packet("LoginSetCompression", <<<<t>>>>) : t \in Thresholds \cup {256}}
    \cup {Packet("PlayTeleportConfirm", <<<<t>>>>) : t \in {0, 300}}
    \cup {Packet("PlayKeepAliveClientBound", <<<<0>>>>)}

---------------------------------------------------------------------------
(* The connection when nothing has happened on it *)

\* AbstractProtocolServerClient.__init__
ServerClientInit == Endpoint(HANDSHAKING, -1)

\* AbstractProtocolClient.__init__
ClientInit == Endpoint(HANDSHAKING, -1)

LogInit ==
    [sentC |-> <<>>, sentS |-> <<>>,       \* packets passed to write_packet
     framesC |-> <<>>, framesS |-> <<>>,   \* frames handed to stream.write
     wireC |-> <<>>, wireS |-> <<>>,       \* bytes the transport took of each frame
     recvC |-> <<>>, recvS |-> <<>>,       \* packets read_packet returned
     readsC |-> 0, readsS |-> 0,           \* read_packet calls that have ended
     agreed |-> TRUE]                      \* every frame was written with both
                                           \* endpoints in the packet's state

NoCall == [who |-> "", op |-> "", exc |-> "", pkt |-> NoPacket, before |-> <<>>]

\* no read_packet coroutine is running; cancelled counts the read_packet
\* calls that ended in CancelledError
TaskIdle ==
    [server |-> "", client |-> "", cancelled |-> [server |-> 0, client |-> 0]]

\* a server that has not been run: no connection is waiting, none has been
\* accepted, no endpoint exists and new_client_connected has not been called
SrvIdle ==
    [running |-> FALSE, raised |-> "", pending |-> {}, accepted |-> <<>>,
     endpoints |-> <<>>, connected_clients |-> <<>>, hooks |-> <<>>]

RegIdle ==
    [phase |-> "", state |-> HANDSHAKING, packets |-> <<>>,
     check_duplicates |-> FALSE, protocol |-> None,
     out |-> Loaded("", None, <<>>, NoDuplicate)]

\* no call of the buffer harness has been made
NoOp ==
    [op |-> "", arg |-> <<>>, max_bits |-> 32, exc |-> "", val |-> <<>>,
     before |-> Buffer(<<>>)]

BufIdle ==
    [kind |-> "", buf |-> Buffer(<<>>), written |-> <<>>, got |-> <<>>,
     calls |-> 0, last |-> NoOp]

\* neither program of the status exchange has started
RunIdle ==
    [pcC |-> 0, pcS |-> 0, excC |-> "", excS |-> "", p |-> <<0>>, j |-> 0,
     pktS |-> NoPacket, closedS |-> FALSE]

ExtIdle ==
    /\ run = RunIdle
    /\ task = TaskIdle
    /\ srv = SrvIdle
    /\ rmap = RegIdle
    /\ bh = BufIdle

ConnIdle ==
    /\ client = ClientInit
    /\ server = ServerClientInit
    /\ c2s = <<>>
    /\ s2c = <<>>
    /\ log = LogInit
    /\ last = NoCall

---------------------------------------------------------------------------
(* Codec harness: one packet is encoded by an endpoint and the frame is    *)
(* given to a receiving endpoint, either through read_packet or, the       *)
(* length prefix split off, directly to its _decode_packet.                *)

NoFrame == Encoded("", <<>>)
NoResult ==
    [exc |-> "", pkt |-> NoPacket, err |-> NoError, length |-> 0,
     body |-> <<>>, rest |-> <<>>]

InitCodec ==
    /\ phase = "start"
    /\ encoder \in {"server", "client", "packet_map"}
    /\ pkt \in Packets
    /\ IF encoder = "client" THEN ClassOf(pkt.cls).sb ELSE ClassOf(pkt.cls).cb
    /\ writer \in {Endpoint(ClassOf(pkt.cls).state, t) : t \in Thresholds}
    /\ reader \in [role : {"server", "client", "packet_map"}, state : GameState,
                   compression_threshold : Thresholds]
    /\ reader0 = reader
    /\ frame = NoFrame
    /\ res = NoResult
    /\ variant \in {"socket", "asyncio"}
    /\ ConnIdle
    /\ ExtIdle

\* the call write_packet makes: self._encode_packet(packet), and
\* PacketMap.encode_packet with the threshold passed
Encode ==
    /\ phase = "start"
    /\ frame' = CASE encoder = "server" -> server_encode_packet(writer, pkt)
                  [] encoder = "client" -> client_encode_packet(pkt, DefaultThreshold)
                  [] encoder = "packet_map" ->
                        PacketMap_encode_packet(pkt, writer.compression_threshold)
    /\ phase' = "encoded"
    /\ UNCHANGED <<encoder, writer, reader, reader0, pkt, res>>
    /\ UNCHANGED connVars
    /\ UNCHANGED extVars

\* the outer length varint L is read from the frame and L bytes are taken
SplitFrame(bytes) ==
    Bind(read_varint(Buffer(bytes), 32), LAMBDA n :
        [length |-> n.val[1],
         body |-> read_bytes(n.buf, n.val[1]).val,
         rest |-> PySlice(bytes, n.buf.pos + n.val[1], Len(bytes))])

\* the receiving endpoint decodes the body of the frame
Decode ==
    /\ phase = "encoded"
    /\ frame.exc = ""
    /\ \E f \in {SplitFrame(frame.val)} :
       \E me \in {Endpoint(reader.state, reader.compression_threshold)} :
       \E d \in {CASE reader.role = "server" -> server_decode_packet(me, Buffer(f.body))
                   [] reader.role = "client" -> client_decode_packet(me, Buffer(f.body))
                   [] reader.role = "packet_map" ->
                        PacketMap_decode_packet(Buffer(f.body), reader.state,
                                                reader.compression_threshold)} :
           /\ res' = [exc |-> d.exc, pkt |-> d.pkt, err |-> d.err,
                      length |-> f.length, body |-> f.body, rest |-> f.rest]
           /\ reader' = [role |-> reader.role, state |-> d.self.state,
                         compression_threshold |-> d.self.compression_threshold]
    /\ phase' = "decoded"
    /\ UNCHANGED <<encoder, writer, reader0, pkt, frame>>
    /\ UNCHANGED connVars
    /\ UNCHANGED extVars

\* the receiving endpoint calls read_packet on a stream that holds the frame
Read ==
    /\ phase = "encoded"
    /\ frame.exc = ""
    /\ reader.role # "packet_map"
    /\ \E me \in {Endpoint(reader.state, reader.compression_threshold)} :
       \E r \in {IF reader.role = "server"
                 THEN server_read_packet(me, variant, frame.val)
                 ELSE client_read_packet(me, variant, frame.val)} :
           /\ res' = [exc |-> r.exc, pkt |-> r.pkt, err |-> r.err,
                      length |-> 0, body |-> <<>>, rest |-> r.stream]
           /\ reader' = [role |-> reader.role, state |-> r.self.state,
                         compression_threshold |-> r.self.compression_threshold]
    /\ phase' = "read"
    /\ UNCHANGED <<encoder, writer, reader0, pkt, frame>>
    /\ UNCHANGED connVars
    /\ UNCHANGED extVars

NextCodec == Encode \/ Decode \/ Read

SpecCodec == InitCodec /\ [][NextCodec]_vars

---------------------------------------------------------------------------
(* Properties of the codec (SpecCodec) *)

PacketEq(a, b) == a.cls = b.cls /\ a.args = b.args

\* varint(P.id) ++ P.pack()
Inner(p) == Varint(ClassOf(p.cls).id) \o pack(p).val

\* the frame of packet p in the wire form of threshold t
WireForm(p, t) ==
    Bind(Inner(p), LAMBDA inner :
    Bind(IF t < 1 THEN inner
         ELSE IF Len(inner) < t THEN Varint(0) \o inner
         ELSE Varint(Len(inner)) \o zlib_compress(inner), LAMBDA body :
        Varint(Len(body)) \o body))

\* what follows the outer length is a data-length varint and then either the
\* raw or the zlib-compressed id and payload
CompressedForm(body, p) ==
    Bind(Inner(p), LAMBDA inner :
        \/ body = Varint(0) \o inner
        \/ body = Varint(Len(inner)) \o zlib_compress(inner))

Peers == (encoder = "server" /\ reader.role = "client")
         \/ (encoder = "client" /\ reader.role = "server")

\* C1: a frame an endpoint encodes under threshold T (T = 0 included) is
\* decoded by the peer under the same T and the packet's state into an equal
\* packet, and the L bytes the outer length announces are the rest of the frame
C1_FramingRoundTrip ==
    (/\ phase = "decoded"
     /\ Peers
     /\ ClassOf(pkt.cls).unpack
     /\ reader.compression_threshold = writer.compression_threshold
     /\ reader.state = ClassOf(pkt.cls).state)
    => /\ res.exc = ""
       /\ PacketEq(res.pkt, pkt)
       /\ Len(res.body) = res.length
       /\ res.rest = <<>>

\* C2: the encoder of an endpoint with threshold T emits the compressed form
\* for T = 0, the plain form for T = -1, and for T > 0 the varint(0) sentinel
\* below T and zlib from T on
C2_CompressionSwitch ==
    (phase # "start" /\ frame.exc = "" /\ encoder \in {"server", "client"})
    => \E t \in {writer.compression_threshold} :
       \E body \in {SplitFrame(frame.val).body} :
       \E inner \in {Inner(pkt)} :
           CASE t = -1 -> body = inner
             [] t = 0 -> CompressedForm(body, pkt)
             [] t > 0 /\ Len(inner) < t -> body = Varint(0) \o inner
             [] OTHER -> body = Varint(Len(inner)) \o zlib_compress(inner)

\* C3: the frame server._encode_packet and PacketMap.encode_packet emit for
\* packet P under threshold T is bit for bit the wire form of T (plain below
\* 1, sentinel below T, zlib from len(inner) = T on), and the outer varint
\* counts exactly the bytes that follow it
C3_WireForm ==
    (phase # "start" /\ frame.exc = "" /\ encoder \in {"server", "packet_map"})
    => /\ frame.val = WireForm(pkt, writer.compression_threshold)
       /\ \E f \in {SplitFrame(frame.val)} :
              /\ f.rest = <<>>
              /\ Len(f.body) = f.length
              /\ Len(frame.val) = Len(Varint(f.length)) + f.length

\* a frame whose inner size equals the threshold has been emitted compressed
C3_Witness ==
    /\ phase = "encoded"
    /\ encoder = "server"
    /\ frame.exc = ""
    /\ writer.compression_threshold >= 1
    /\ \E inner \in {Inner(pkt)} :
        /\ Len(inner) = writer.compression_threshold
        /\ SplitFrame(frame.val).body = Varint(Len(inner)) \o zlib_compress(inner)

\* C6: decoding a frame, through read_packet or _decode_packet, leaves the
\* endpoint's state and compression_threshold as they were, whether a packet
\* is returned or an exception raised
C6_ReadDoesNotMutate ==
    phase \in {"decoded", "read"} => reader = reader0

\* a LoginSetCompression carrying another threshold than the endpoint's has
\* been decoded by the client endpoint
C6_Witness ==
    /\ phase = "decoded"
    /\ reader.role = "client"
    /\ res.exc = ""
    /\ res.pkt.cls = "LoginSetCompression"
    /\ res.pkt.args[1][1] # reader0.compression_threshold
    /\ reader = reader0

\* the receive direction of a decoder
ReceiveDirection(role) == IF role = "client" THEN CLIENTBOUND ELSE SERVERBOUND

\* classes whose class attributes are (direction, state, id)
RegisteredAs(direction, state, id) ==
    {n \in ClassNames :
        /\ ClassOf(n).id = id
        /\ ClassOf(n).state = state
        /\ IF direction = SERVERBOUND THEN ClassOf(n).sb ELSE ClassOf(n).cb}

\* the frame is in the form the decoder takes it to be (compressed form from
\* threshold 0 on): the id the decoder reads is the id of the packet sent
SameFraming ==
    \E body \in {SplitFrame(frame.val).body} :
        IF reader.compression_threshold >= 0
        THEN CompressedForm(body, pkt)
        ELSE body = Inner(pkt)

C11_UnknownIdContext ==
    (/\ phase = "decoded"
     /\ SameFraming
     /\ RegisteredAs(ReceiveDirection(reader.role), reader0.state,
                     ClassOf(pkt.cls).id) = {})
    => /\ res.exc = "UnknownPacketIdError"
       /\ res.pkt = NoPacket
       /\ res.err = UnknownPacketId(ProtocolInt(757), reader0.state,
                                    ClassOf(pkt.cls).id,
                                    ReceiveDirection(reader.role))

---------------------------------------------------------------------------
(* One connection: a client endpoint and the per-connection server         *)
(* endpoint, each writing and reading packets over its stream.             *)

\* packets the client program writes
ClientPackets ==
    {Packet("HandshakeHandshake", <<<<757>>, <<>>, <<12345>>, <<n>>>>) :
        n \in {STATUS, LOGIN, PLAY}}
    \cup {Packet("StatusStatusPingPong", <<<<0>>>>)}

\* packets the server program writes
ServerPackets ==
    {Packet("LoginSetCompression", <<<<t>>>>) : t \in {-1, MaxThreshold}}
    \cup {Packet("StatusStatusPingPong", <<<<0>>>>)}

Min(a, b) == IF a < b THEN a ELSE b

\* SocketTCPStream.write: sock.send(data), whose count of bytes sent is
\* dropped, so the transport may have taken only the head of data.
\* AsyncTCPStream.write and drain: the whole of data is written.
stream_write(kind, data) ==
    IF kind = "socket"
    THEN {SubSeq(data, 1, Len(data) - d) :
            d \in 0..Min(MaxShortfall, Len(data) - 1)}
    ELSE {data}

Init ==
    /\ phase = "conn"
    /\ encoder = ""
    /\ pkt = NoPacket
    /\ writer = Endpoint(HANDSHAKING, -1)
    /\ reader = [role |-> "", state |-> HANDSHAKING, compression_threshold |-> -1]
    /\ reader0 = reader
    /\ frame = NoFrame
    /\ res = NoResult
    /\ variant \in {"socket", "asyncio"}
    /\ ConnIdle
    /\ ExtIdle

Calls == Len(log.sentC) + Len(log.sentS)
Reads == log.readsC + log.readsS

InState(p, self) == ClassOf(p.cls).state = self.state

\* client.write_packet(p): self.stream.write(self._encode_packet(packet))
ClientWritePacket ==
    /\ phase = "conn"
    /\ Calls < MaxWrites
    /\ \E p \in ClientPackets :
       \E f \in {client_encode_packet(p, DefaultThreshold)} :
       \E taken \in stream_write(variant, f.val) :
            /\ f.exc = ""
            /\ c2s' = c2s \o taken
            /\ log' = [log EXCEPT !.sentC = Append(@, p),
                                  !.framesC = Append(@, f.val),
                                  !.wireC = Append(@, taken),
                                  !.agreed = @ /\ client = server
                                               /\ InState(p, client)]
            /\ last' = [who |-> "client", op |-> "write", exc |-> "",
                        pkt |-> p, before |-> <<>>]
    /\ UNCHANGED <<variant, client, server, s2c>>
    /\ UNCHANGED codecVars
    /\ UNCHANGED extVars

\* the client program after it has written a Handshake:
\* client.state = <the next_state it sent>
ClientAssignState ==
    /\ phase = "conn"
    /\ last.who = "client"
    /\ last.op = "write"
    /\ last.pkt.cls = "HandshakeHandshake"
    /\ client' = Endpoint(last.pkt.args[4][1], client.compression_threshold)
    /\ last' = [last EXCEPT !.op = "assign"]
    /\ UNCHANGED <<variant, server, c2s, s2c, log>>
    /\ UNCHANGED codecVars
    /\ UNCHANGED extVars

\* client.write_packet(p) of the per-connection server endpoint
ServerWritePacket ==
    /\ phase = "conn"
    /\ Calls < MaxWrites
    /\ \E p \in ServerPackets :
       \E f \in {server_encode_packet(server, p)} :
       \E taken \in stream_write(variant, f.val) :
            /\ f.exc = ""
            /\ s2c' = s2c \o taken
            /\ log' = [log EXCEPT !.sentS = Append(@, p),
                                  !.framesS = Append(@, f.val),
                                  !.wireS = Append(@, taken),
                                  !.agreed = @ /\ client = server
                                               /\ InState(p, server)]
            /\ last' = [who |-> "server", op |-> "write", exc |-> "",
                        pkt |-> p, before |-> <<>>]
    /\ UNCHANGED <<variant, client, server, c2s>>
    /\ UNCHANGED codecVars
    /\ UNCHANGED extVars

\* new_client_connected of the server program: packet = client.read_packet()
\* and, for a Handshake, client.state = packet.next_state.  The call is
\* taken once bytes have arrived.
ServerReadPacket ==
    /\ phase = "conn"
    /\ Reads < MaxReads
    /\ c2s # <<>>
    /\ \E r \in {server_read_packet(server, variant, c2s)} :
           /\ c2s' = r.stream
           /\ server' = IF r.exc = "" /\ r.pkt.cls = "HandshakeHandshake"
                        THEN Endpoint(r.pkt.args[4][1], r.self.compression_threshold)
                        ELSE r.self
           /\ log' = [log EXCEPT !.readsS = @ + 1,
                                 !.recvS = IF r.exc = "" THEN Append(@, r.pkt) ELSE @]
           /\ last' = [who |-> "server", op |-> "read", exc |-> r.exc,
                       pkt |-> r.pkt, before |-> c2s]
    /\ UNCHANGED <<variant, client, s2c>>
    /\ UNCHANGED codecVars
    /\ UNCHANGED extVars

\* packet = client.read_packet() of the client program
ClientReadPacket ==
    /\ phase = "conn"
    /\ Reads < MaxReads
    /\ s2c # <<>>
    /\ \E r \in {client_read_packet(client, variant, s2c)} :
           /\ s2c' = r.stream
           /\ client' = r.self
           /\ log' = [log EXCEPT !.readsC = @ + 1,
                                 !.recvC = IF r.exc = "" THEN Append(@, r.pkt) ELSE @]
           /\ last' = [who |-> "client", op |-> "read", exc |-> r.exc,
                       pkt |-> r.pkt, before |-> s2c]
    /\ UNCHANGED <<variant, server, c2s>>
    /\ UNCHANGED codecVars
    /\ UNCHANGED extVars

Next ==
    \/ ClientWritePacket
    \/ ClientAssignState
    \/ ServerWritePacket
    \/ ServerReadPacket
    \/ ClientReadPacket

Spec == Init /\ [][Next]_vars

---------------------------------------------------------------------------
(* Properties of the connection (Spec) *)

RECURSIVE Flatten(_)
Flatten(chunks) ==
    IF chunks = <<>> THEN <<>> ELSE Head(chunks) \o Flatten(Tail(chunks))

IsPrefix(a, b) == Len(a) <= Len(b) /\ a = SubSeq(b, 1, Len(a))

\* the frames not yet read after n read_packet calls
FramesAfter(frames, n) ==
    IF n >= Len(frames) THEN <<>> ELSE Flatten(SubSeq(frames, n + 1, Len(frames)))

\* every frame written reached the stream whole
WholeFrames == log.wireC = log.framesC /\ log.wireS = log.framesS

\* C4: in each direction the packets read_packet has returned are a prefix of
\* the packets passed to write_packet, and when the endpoints agreed on state
\* and threshold for every frame, each read_packet call on a stream holding a
\* frame has returned its packet and consumed exactly that frame
C4_PerConnectionOrdering ==
    /\ IsPrefix(log.recvS, log.sentC)
    /\ IsPrefix(log.recvC, log.sentS)
    /\ (log.agreed /\ WholeFrames)
       => /\ Len(log.recvS) = log.readsS
          /\ c2s = FramesAfter(log.framesC, log.readsS)
          /\ Len(log.recvC) = log.readsC
          /\ s2c = FramesAfter(log.framesS, log.readsC)

\* C5: the bytes the peer sees are the frames of the write_packet calls, each
\* complete and contiguous, one after the other, in the socket and in the
\* asyncio variant, also when a send call takes fewer bytes than offered
C5_NoTornFrames ==
    /\ Flatten(log.wireC) = Flatten(log.framesC)
    /\ Flatten(log.wireS) = Flatten(log.framesS)

\* the threshold of the first LoginSetCompression among the first n packets
\* the server wrote, -1 before any
RECURSIVE Announced(_, _)
Announced(sent, n) ==
    IF n = 0 THEN -1
    ELSE IF sent[n].cls = "LoginSetCompression" THEN sent[n].args[1][1]
    ELSE Announced(sent, n - 1)

\* C7: once the server endpoint has written LoginSetCompression(T), every
\* frame written afterwards on the connection, by either endpoint, is framed
\* under T: sentinel below T, zlib from T on, and plain after T = -1
C7_ThresholdTransition ==
    /\ \A i \in 1..Len(log.sentS) :
        log.framesS[i] = WireForm(log.sentS[i], Announced(log.sentS, i - 1))
    /\ (last.who = "client" /\ last.op = "write")
       => log.framesC[Len(log.framesC)]
            = WireForm(last.pkt, Announced(log.sentS, Len(log.sentS)))

Transitions ==
    {<<HANDSHAKING, STATUS>>, <<HANDSHAKING, LOGIN>>, <<LOGIN, PLAY>>}

\* C8: endpoints start in HANDSHAKING with threshold -1, and with the state
\* assigned from the Handshake sent or received, whatever its next_state, the
\* state only ever changes HANDSHAKING->STATUS, HANDSHAKING->LOGIN, LOGIN->PLAY
C8_StateMachine ==
    /\ client = Endpoint(HANDSHAKING, -1)
    /\ server = Endpoint(HANDSHAKING, -1)
    /\ [][/\ client'.state # client.state
             => <<client.state, client'.state>> \in Transitions
          /\ server'.state # server.state
             => <<server.state, server'.state>> \in Transitions]_vars

\* C9: the first read_packet of the server endpoint, in HANDSHAKING, on a
\* stream that begins with a whole frame returns nothing but a
\* HandshakeHandshake, and raises UnknownPacketIdError when the id is not 0
C9_FirstPacket ==
    (/\ last.who = "server"
     /\ last.op = "read"
     /\ log.readsS = 1
     /\ (server.state = HANDSHAKING \/ last.pkt.cls = "HandshakeHandshake")
     /\ IsPrefix(log.framesC[1], last.before))
    => /\ last.exc = "" => last.pkt.cls = "HandshakeHandshake"
       /\ ClassOf(log.sentC[1].cls).id # 0 => last.exc = "UnknownPacketIdError"


---------------------------------------------------------------------------
(* Cancellation of the asyncio read_packet coroutine                       *)
(* (net/asyncio/server.py, net/asyncio/client.py).  read_packet awaits     *)
(* stream.read_varint(), which awaits readexactly(1); StreamReader takes   *)
(* bytes out of its buffer only once enough have arrived, so the coroutine *)
(* is suspended there exactly while the stream holds no byte, and a        *)
(* cancellation delivered there removes nothing.                           *)

MaxCancels == 1

Stream(who) == IF who = "server" THEN c2s ELSE s2c

\* read_packet holds no call of stream.close(), neither do read_varint and
\* readexactly: a stream is never closed by a read
StreamClosed(who) == FALSE

InitTask ==
    /\ Init
    /\ variant = "asyncio"

\* read_packet() is called while no byte has arrived: the coroutine is
\* suspended in the first readexactly(1) of read_varint
ReadPacketSuspend ==
    /\ phase = "conn"
    /\ Reads < MaxReads
    /\ \E who \in {"server", "client"} :
        /\ task[who] = ""
        /\ Stream(who) = <<>>
        /\ task' = [task EXCEPT ![who] = "read_varint"]
    /\ UNCHANGED connVars
    /\ UNCHANGED codecVars
    /\ UNCHANGED <<srv, rmap, bh, run>>

\* bytes have arrived and the suspended coroutine runs on to its end
ReadPacketResume ==
    /\ phase = "conn"
    /\ \E who \in {"server", "client"} :
        /\ task[who] = "read_varint"
        /\ Stream(who) # <<>>
        /\ task' = [task EXCEPT ![who] = ""]
        /\ IF who = "server"
           THEN \E r \in {server_read_packet(server, variant, c2s)} :
                /\ c2s' = r.stream
                /\ server' = IF r.exc = "" /\ r.pkt.cls = "HandshakeHandshake"
                             THEN Endpoint(r.pkt.args[4][1],
                                           r.self.compression_threshold)
                             ELSE r.self
                /\ log' = [log EXCEPT !.readsS = @ + 1,
                                      !.recvS = IF r.exc = "" THEN Append(@, r.pkt)
                                                ELSE @]
                /\ last' = [who |-> "server", op |-> "read", exc |-> r.exc,
                            pkt |-> r.pkt, before |-> c2s]
                /\ UNCHANGED <<client, s2c>>
           ELSE \E r \in {client_read_packet(client, variant, s2c)} :
                /\ s2c' = r.stream
                /\ client' = r.self
                /\ log' = [log EXCEPT !.readsC = @ + 1,
                                      !.recvC = IF r.exc = "" THEN Append(@, r.pkt)
                                                ELSE @]
                /\ last' = [who |-> "client", op |-> "read", exc |-> r.exc,
                            pkt |-> r.pkt, before |-> s2c]
                /\ UNCHANGED <<server, c2s>>
    /\ UNCHANGED variant
    /\ UNCHANGED codecVars
    /\ UNCHANGED <<srv, rmap, bh, run>>

\* the task running read_packet is cancelled while it is suspended:
\* CancelledError is raised out of readexactly(1), no handler of read_packet
\* or read_varint catches it
ReadPacketCancel ==
    /\ phase = "conn"
    /\ task.cancelled.server + task.cancelled.client < MaxCancels
    /\ \E who \in {"server", "client"} :
        /\ task[who] = "read_varint"
        /\ task' = [task EXCEPT ![who] = "", !.cancelled[who] = @ + 1]
        /\ last' = [who |-> who, op |-> "read", exc |-> "CancelledError",
                    pkt |-> NoPacket, before |-> Stream(who)]
    /\ UNCHANGED <<variant, client, server, c2s, s2c, log>>
    /\ UNCHANGED codecVars
    /\ UNCHANGED <<srv, rmap, bh, run>>

\* read_packet() is called while bytes are buffered: it runs to its end
\* without being suspended
ServerReadReady == task.server = "" /\ ServerReadPacket
ClientReadReady == task.client = "" /\ ClientReadPacket

NextTask ==
    \/ ClientWritePacket
    \/ ServerWritePacket
    \/ ServerReadReady
    \/ ClientReadReady
    \/ ReadPacketSuspend
    \/ ReadPacketResume
    \/ ReadPacketCancel

SpecTask == InitTask /\ [][NextTask]_vars

\* the stream the last read_packet call found was at the start of a frame
\* of its peer
AtFrameBoundary ==
    \E frames \in {IF last.who = "server" THEN log.framesC ELSE log.framesS} :
    \E k \in 0..Len(frames) : last.before = FramesAfter(frames, k)

\* C12: a read_packet cancelled at a suspension point has consumed no byte of
\* the frame or has closed the stream, and a read_packet the same endpoint
\* calls after a cancellation does not start in the middle of a frame
C12_CancelSafety ==
    /\ last.exc = "CancelledError"
       => (Stream(last.who) = last.before \/ StreamClosed(last.who))
    /\ (last.op = "read" /\ task.cancelled[last.who] > 0) => AtFrameBoundary


---------------------------------------------------------------------------
(* The accept loop: net/socket/server.py, net/asyncio/server.py.  A        *)
(* connection is named by a number, which is also the address of its peer. *)

MaxConns == 4

Conns == 1..MaxConns

\* AbstractTCPStream.remote is a property with a getter and no setter
RemoteHasSetter == FALSE

\* sock.getsockname(): the address of the accepted socket's own end, the
\* one the server listens on
getsockname(sock) == 0

\* writer.get_extra_info("peername"): the address of the connection's peer
peername(w) == w

\* SocketTCPStream(sock) and AsyncTCPStream(writer): the constructor assigns
\* self.remote
TCPStream_init(kind, conn) ==
    IF RemoteHasSetter
    THEN [exc |-> "",
          stream |-> [conn |-> conn,
                      remote |-> IF kind = "socket" THEN getsockname(conn)
                                 ELSE peername(conn)]]
    ELSE [exc |-> "AttributeError", stream |-> [conn |-> conn, remote |-> -1]]

\* SocketProtocolServerClient(stream, packet_map),
\* AsyncProtocolServerClient(stream, packet_map)
ServerClient(stream, packet_map) ==
    [stream |-> stream, packet_map |-> packet_map, state |-> HANDSHAKING,
     compression_threshold |-> -1]

\* self.packet_map of the server
ServerPacketMap ==
    load_packet_map(ProtocolInt(TESTING_PROTOCOL), FALSE,
                    [s \in GameState |-> PacketClasses(s)])

\* d[k] = v on a dict
DictSet(d, k, v) == [x \in DOMAIN d \cup {k} |-> IF x = k THEN v ELSE d[x]]

InitAccept ==
    /\ phase = "accept"
    /\ encoder = ""
    /\ pkt = NoPacket
    /\ writer = Endpoint(HANDSHAKING, -1)
    /\ reader = [role |-> "", state |-> HANDSHAKING, compression_threshold |-> -1]
    /\ reader0 = reader
    /\ frame = NoFrame
    /\ res = NoResult
    /\ variant \in {"socket", "asyncio"}
    /\ ConnIdle
    /\ ExtIdle

\* server.run(): the server listens
Run ==
    /\ phase = "accept"
    /\ ~srv.running
    /\ srv' = [srv EXCEPT !.running = TRUE]
    /\ UNCHANGED <<task, rmap, bh, run>>
    /\ UNCHANGED connVars
    /\ UNCHANGED codecVars

\* a client connects to the listening server and waits to be accepted
Connect ==
    /\ phase = "accept"
    /\ srv.running
    /\ srv.raised = ""
    /\ \E c \in Conns :
        /\ c \notin srv.pending
        /\ \A k \in DOMAIN srv.accepted : srv.accepted[k] # c
        /\ srv' = [srv EXCEPT !.pending = @ \cup {c}]
    /\ UNCHANGED <<task, rmap, bh, run>>
    /\ UNCHANGED connVars
    /\ UNCHANGED codecVars

\* a connection is accepted and _client_connected_cb runs for it: the
\* stream and the endpoint are constructed, the endpoint is entered in
\* connected_clients under stream.remote and new_client_connected is given
\* the endpoint (in a new thread, or awaited).  An exception of the
\* callback ends run() of the socket server, whose loop calls it directly;
\* the asyncio server runs each callback as its own task.
Accept ==
    /\ phase = "accept"
    /\ srv.running
    /\ srv.raised = ""
    /\ \E c \in srv.pending :
       \E s \in {TCPStream_init(variant, c)} :
       \E cl \in {ServerClient(s.stream, ServerPacketMap)} :
        IF s.exc # ""
        THEN srv' = [srv EXCEPT !.pending = @ \ {c},
                                !.accepted = Append(@, c),
                                !.raised = IF variant = "socket" THEN s.exc ELSE @]
        ELSE srv' = [srv EXCEPT !.pending = @ \ {c},
                                !.accepted = Append(@, c),
                                !.endpoints = Append(@, cl),
                                !.connected_clients = DictSet(@, cl.stream.remote, cl),
                                !.hooks = Append(@, cl)]
    /\ UNCHANGED <<task, rmap, bh, run>>
    /\ UNCHANGED connVars
    /\ UNCHANGED codecVars

NextAccept == Run \/ Connect \/ Accept

SpecAccept == InitAccept /\ [][NextAccept]_vars

\* the indices of seq that hold an endpoint of connection c
OfConn(seq, c) == {k \in DOMAIN seq : seq[k].stream.conn = c}

\* C13: for every accepted connection exactly one endpoint has been
\* constructed, on that connection's stream and with the server's
\* PacketMap, and new_client_connected has been called exactly once with
\* that endpoint; no call was made with an endpoint of a connection that
\* was not accepted
C13_AcceptLoop ==
    /\ \A k \in DOMAIN srv.accepted :
        /\ Cardinality(OfConn(srv.endpoints, srv.accepted[k])) = 1
        /\ Cardinality(OfConn(srv.hooks, srv.accepted[k])) = 1
        /\ \A e \in OfConn(srv.endpoints, srv.accepted[k]) :
            /\ srv.endpoints[e].packet_map = ServerPacketMap
            /\ \A h \in OfConn(srv.hooks, srv.accepted[k]) :
                srv.hooks[h] = srv.endpoints[e]
    /\ \A h \in DOMAIN srv.hooks :
        \E k \in DOMAIN srv.accepted : srv.hooks[h].stream.conn = srv.accepted[k]


\* C29: stream.remote of an endpoint is the address of its remote client:
\* when connections from n distinct peers have been accepted,
\* connected_clients holds n entries, and the entry under the address of
\* each accepted peer is the endpoint of that peer's connection (no accept
\* has replaced it)
C29_ClientTable ==
    /\ Cardinality(DOMAIN srv.connected_clients) = Len(srv.accepted)
    /\ \A k \in DOMAIN srv.accepted :
        /\ peername(srv.accepted[k]) \in DOMAIN srv.connected_clients
        /\ srv.connected_clients[peername(srv.accepted[k])].stream.conn
                = srv.accepted[k]
        /\ srv.connected_clients[peername(srv.accepted[k])].stream.remote
                = peername(srv.accepted[k])


---------------------------------------------------------------------------
(* The status exchange of tests/test_net_socket.py and                     *)
(* tests/test_net_asyncio.py: the client program and the server hook       *)
(* new_client_connected, each a straight line of calls.  pcC and pcS count *)
(* the calls made; a program that raised has its exception in excC, excS.  *)

\* payloads of the ping: 0, the tests' 1234567890, -1, and the least and
\* the greatest signed 64-bit value as their eight bytes
Payloads ==
    {<<0>>, <<1234567890>>, <<-1>>,
     <<128, 0, 0, 0, 0, 0, 0, 0>>, <<127, 255, 255, 255, 255, 255, 255, 255>>}

\* position of a program that has ended
Done == 6

InitStatus ==
    /\ phase = "status"
    /\ encoder = ""
    /\ pkt = NoPacket
    /\ writer = Endpoint(HANDSHAKING, -1)
    /\ reader = [role |-> "", state |-> HANDSHAKING, compression_threshold |-> -1]
    /\ reader0 = reader
    /\ frame = NoFrame
    /\ res = NoResult
    /\ variant \in {"socket", "asyncio"}
    /\ ConnIdle
    /\ task = TaskIdle
    /\ srv = SrvIdle
    /\ rmap = RegIdle
    /\ bh = BufIdle
    /\ \E p \in Payloads, j \in JsonValues : run = [RunIdle EXCEPT !.p = p, !.j = j]

\* the packet the client program writes at position pc
ClientWrites(pc) ==
    CASE pc = 0 -> Packet("HandshakeHandshake", <<<<757>>, <<>>, <<12345>>, <<STATUS>>>>)
      [] pc = 2 -> Packet("StatusStatusRequest", <<>>)
      [] pc = 4 -> Packet("StatusStatusPingPong", <<run.p>>)

\* the packet the client program asserts to have read at position pc
ClientExpects(pc) ==
    IF pc = 3 THEN Packet("StatusStatusResponse", <<<<run.j>>>>)
    ELSE Packet("StatusStatusPingPong", <<run.p>>)

\* the class the hook asserts to have read at position pc
ServerExpects(pc) ==
    CASE pc = 0 -> "HandshakeHandshake"
      [] pc = 2 -> "StatusStatusRequest"
      [] pc = 4 -> "StatusStatusPingPong"

\* the packet the hook writes at position pc
ServerWrites(pc) ==
    IF pc = 3 THEN Packet("StatusStatusResponse", <<<<run.j>>>>) ELSE run.pktS

\* the hook has ended.  The socket server runs it inside
\* `with client.stream.sock`, which closes the connection however the hook
\* ends; the asyncio server closes nothing, the connection is closed when
\* the stream is collected, or never.
ServerEnded(r, exc) ==
    {[r EXCEPT !.pcS = Done, !.excS = exc, !.closedS = c] :
        c \in IF variant = "socket" THEN {TRUE} ELSE {TRUE, FALSE}}

\* one call of the client program
ClientStep ==
    /\ phase = "status"
    /\ run.pcC < Done
    /\ run.excC = ""
    /\ CASE run.pcC \in {0, 2, 4} ->
            \E f \in {client_encode_packet(ClientWrites(run.pcC), DefaultThreshold)} :
                IF f.exc # ""
                THEN /\ run' = [run EXCEPT !.excC = f.exc]
                     /\ last' = [who |-> "client", op |-> "write", exc |-> f.exc,
                                 pkt |-> ClientWrites(run.pcC), before |-> <<>>]
                     /\ UNCHANGED <<client, c2s, s2c, log>>
                ELSE \E taken \in stream_write(variant, f.val) :
                     /\ c2s' = c2s \o taken
                     /\ log' = [log EXCEPT !.sentC = Append(@, ClientWrites(run.pcC)),
                                           !.framesC = Append(@, f.val),
                                           !.wireC = Append(@, taken)]
                     /\ last' = [who |-> "client", op |-> "write", exc |-> "",
                                 pkt |-> ClientWrites(run.pcC), before |-> <<>>]
                     /\ run' = [run EXCEPT !.pcC = @ + 1]
                     /\ UNCHANGED <<client, s2c>>
         [] run.pcC = 1 ->
            /\ client' = Endpoint(STATUS, client.compression_threshold)
            /\ run' = [run EXCEPT !.pcC = @ + 1]
            /\ last' = [last EXCEPT !.op = "assign"]
            /\ UNCHANGED <<c2s, s2c, log>>
         [] run.pcC \in {3, 5} ->
            IF s2c = <<>>
            THEN \* nothing to read: the call waits, and fails once the
                 \* peer has closed the connection
                 /\ run.closedS
                 /\ run' = [run EXCEPT !.excC = IF variant = "socket" THEN "IOError"
                                                ELSE "IncompleteReadError"]
                 /\ last' = [who |-> "client", op |-> "read", exc |-> run'.excC,
                             pkt |-> NoPacket, before |-> s2c]
                 /\ UNCHANGED <<client, c2s, s2c, log>>
            ELSE \E r \in {client_read_packet(client, variant, s2c)} :
                 /\ s2c' = r.stream
                 /\ client' = r.self
                 /\ log' = [log EXCEPT !.readsC = @ + 1,
                                       !.recvC = IF r.exc = "" THEN Append(@, r.pkt)
                                                 ELSE @]
                 /\ last' = [who |-> "client", op |-> "read", exc |-> r.exc,
                             pkt |-> r.pkt, before |-> s2c]
                 /\ run' = IF r.exc # "" THEN [run EXCEPT !.excC = r.exc]
                           ELSE IF r.pkt # ClientExpects(run.pcC)
                           THEN [run EXCEPT !.excC = "AssertionError"]
                           ELSE [run EXCEPT !.pcC = @ + 1]
                 /\ UNCHANGED c2s
    /\ UNCHANGED <<variant, server>>
    /\ UNCHANGED codecVars
    /\ UNCHANGED <<task, srv, rmap, bh>>

\* one call of the hook new_client_connected
ServerStep ==
    /\ phase = "status"
    /\ run.pcS < Done
    /\ CASE run.pcS \in {0, 2, 4} ->
            /\ c2s # <<>>
            /\ \E r \in {server_read_packet(server, variant, c2s)} :
                 /\ c2s' = r.stream
                 /\ server' = r.self
                 /\ log' = [log EXCEPT !.readsS = @ + 1,
                                       !.recvS = IF r.exc = "" THEN Append(@, r.pkt)
                                                 ELSE @]
                 /\ last' = [who |-> "server", op |-> "read", exc |-> r.exc,
                             pkt |-> r.pkt, before |-> c2s]
                 /\ run' \in
                        IF r.exc # "" THEN ServerEnded(run, r.exc)
                        ELSE IF r.pkt.cls # ServerExpects(run.pcS)
                        THEN ServerEnded(run, "AssertionError")
                        ELSE {[run EXCEPT !.pcS = @ + 1, !.pktS = r.pkt]}
                 /\ UNCHANGED s2c
         [] run.pcS = 1 ->
            /\ server' = Endpoint(run.pktS.args[4][1], server.compression_threshold)
            /\ run' = [run EXCEPT !.pcS = @ + 1]
            /\ last' = [last EXCEPT !.op = "assign"]
            /\ UNCHANGED <<c2s, s2c, log>>
         [] run.pcS \in {3, 5} ->
            \E f \in {server_encode_packet(server, ServerWrites(run.pcS))} :
                IF f.exc # ""
                THEN /\ run' \in ServerEnded(run, f.exc)
                     /\ last' = [who |-> "server", op |-> "write", exc |-> f.exc,
                                 pkt |-> ServerWrites(run.pcS), before |-> <<>>]
                     /\ UNCHANGED <<server, c2s, s2c, log>>
                ELSE \E taken \in stream_write(variant, f.val) :
                     /\ s2c' = s2c \o taken
                     /\ log' = [log EXCEPT !.sentS = Append(@, ServerWrites(run.pcS)),
                                           !.framesS = Append(@, f.val),
                                           !.wireS = Append(@, taken)]
                     /\ last' = [who |-> "server", op |-> "write", exc |-> "",
                                 pkt |-> ServerWrites(run.pcS), before |-> <<>>]
                     /\ run' \in IF run.pcS = 5 THEN ServerEnded(run, "")
                                 ELSE {[run EXCEPT !.pcS = @ + 1]}
                     /\ UNCHANGED <<server, c2s>>
    /\ UNCHANGED <<variant, client>>
    /\ UNCHANGED codecVars
    /\ UNCHANGED <<task, srv, rmap, bh>>

NextStatus == ClientStep \/ ServerStep

\* each program goes on to its next call whenever that call can be made
SpecStatus ==
    InitStatus /\ [][NextStatus]_vars /\ WF_vars(ClientStep) /\ WF_vars(ServerStep)

\* the client has read StatusStatusResponse(j) and then
\* StatusStatusPingPong(p), and both programs have ended without an exception
Exchanged ==
    /\ log.recvC = <<Packet("StatusStatusResponse", <<<<run.j>>>>),
                     Packet("StatusStatusPingPong", <<run.p>>)>>
    /\ run.pcC = Done
    /\ run.pcS = Done
    /\ run.excC = ""
    /\ run.excS = ""

\* C14: in the status exchange the client eventually receives the
\* StatusStatusResponse with the server's data and then the
\* StatusStatusPingPong with its own payload, for every payload, in both
\* variants, and neither program waits forever
C14_StatusExchange == <>Exchanged


---------------------------------------------------------------------------
(* Registry harness: a list of packet classes is given to                  *)
(* StatePacketMap.from_list, or is what the modules of one state yield     *)
(* when load_packet_map is called.                                         *)

MaxList == 3

\* classes the lists are drawn from: ids 0 and 1 in both directions
Pool ==
    {"HandshakeHandshake", "StatusStatusRequest", "StatusStatusResponse",
     "StatusStatusPingPong", "LoginDisconnect", "LoginEncryptionResponse"}

\* lists of distinct classes
Lists ==
    UNION {{q \in [1..n -> Pool] : \A a, b \in 1..n : q[a] = q[b] => a = b} :
            n \in 0..MaxList}

\* the orders in which the classes of a list can be enumerated
Perms(packets) ==
    {q \in [DOMAIN packets -> {packets[k] : k \in DOMAIN packets}] :
        \A a, b \in DOMAIN packets : q[a] = q[b] => a = b}

\* what the directories of the protocol yield: packets in the directory of
\* state, nothing elsewhere
Yield(state, packets) == [s \in GameState |-> IF s = state THEN packets ELSE <<>>]

InitReg ==
    /\ phase = "registry"
    /\ encoder = ""
    /\ pkt = NoPacket
    /\ writer = Endpoint(HANDSHAKING, -1)
    /\ reader = [role |-> "", state |-> HANDSHAKING, compression_threshold |-> -1]
    /\ reader0 = reader
    /\ frame = NoFrame
    /\ res = NoResult
    /\ variant = "socket"
    /\ ConnIdle
    /\ task = TaskIdle
    /\ srv = SrvIdle
    /\ bh = BufIdle
    /\ run = RunIdle
    /\ \E state \in {STATUS, LOGIN}, packets \in Lists, check \in BOOLEAN,
          protocol \in {ProtocolInt(TESTING_PROTOCOL), ProtocolStr("757")} :
        rmap = [RegIdle EXCEPT !.phase = "start", !.state = state,
                               !.packets = packets, !.check_duplicates = check,
                               !.protocol = protocol]

\* StatePacketMap.from_list(state, packets, check_duplicates=check)
FromList ==
    /\ phase = "registry"
    /\ rmap.phase = "start"
    /\ rmap' = [rmap EXCEPT
                 !.phase = "from_list",
                 !.out = StatePacketMap_from_list(rmap.state, rmap.packets,
                                                  rmap.check_duplicates)]
    /\ UNCHANGED <<task, srv, bh, run>>
    /\ UNCHANGED connVars
    /\ UNCHANGED codecVars

\* pymine_net.packets.load_packet_map(protocol, debug=check)
Load ==
    /\ phase = "registry"
    /\ rmap.phase = "start"
    /\ rmap' = [rmap EXCEPT
                 !.phase = "load",
                 !.out = load_packet_map(rmap.protocol, rmap.check_duplicates,
                                         Yield(rmap.state, rmap.packets))]
    /\ UNCHANGED <<task, srv, bh, run>>
    /\ UNCHANGED connVars
    /\ UNCHANGED codecVars

\* pymine_net.packets.packet_map.load_packet_map(protocol, debug=check)
LoadWalk ==
    /\ phase = "registry"
    /\ rmap.phase = "start"
    /\ rmap' = [rmap EXCEPT
                 !.phase = "packet_map.load",
                 !.out = packet_map_load_packet_map(rmap.protocol,
                                                    rmap.check_duplicates)]
    /\ UNCHANGED <<task, srv, bh, run>>
    /\ UNCHANGED connVars
    /\ UNCHANGED codecVars

NextReg == FromList \/ Load \/ LoadWalk

SpecReg == InitReg /\ [][NextReg]_vars

\* two classes of the list have the id packet_id and the direction
Clash(packets, packet_id, direction) ==
    \E a, b \in DOMAIN packets :
        /\ a < b
        /\ ClassOf(packets[a]).id = packet_id
        /\ ClassOf(packets[b]).id = packet_id
        /\ IF direction = SERVERBOUND
           THEN IsServerBound(packets[a]) /\ IsServerBound(packets[b])
           ELSE IsClientBound(packets[a]) /\ IsClientBound(packets[b])

HasDuplicate(packets) ==
    \E k \in DOMAIN packets, direction \in {SERVERBOUND, CLIENTBOUND} :
        Clash(packets, ClassOf(packets[k]).id, direction)

\* the call raised DuplicatePacketIdError naming the state and a clash of
\* the list
RaisedDuplicate ==
    /\ rmap.out.exc = "DuplicatePacketIdError"
    /\ rmap.out.err.state = rmap.state
    /\ Clash(rmap.packets, rmap.out.err.packet_id, rmap.out.err.direction)

\* C15: from_list with check_duplicates raises DuplicatePacketIdError
\* exactly when two classes of the list have the same id and the same
\* direction, the error names the state, the id and the direction of such
\* a clash, and load_packet_map with debug raises it with the protocol it
\* was called with
C15_DuplicateDetection ==
    /\ (rmap.phase = "from_list" /\ rmap.check_duplicates)
       => IF HasDuplicate(rmap.packets) THEN RaisedDuplicate
          ELSE rmap.out.exc = ""
    /\ (/\ rmap.phase \in {"load", "packet_map.load"}
        /\ rmap.check_duplicates
        /\ HasDuplicate(rmap.packets))
       => /\ RaisedDuplicate
          /\ rmap.out.err.protocol = rmap.protocol

\* C16: from_list and load_packet_map build the same serverbound and
\* clientbound maps whatever the order in which the classes are enumerated,
\* with check_duplicates (debug) on or off
C16_OrderIndependent ==
    /\ rmap.phase = "from_list"
       => \A q \in Perms(rmap.packets) :
            \E o \in {StatePacketMap_from_list(rmap.state, q, rmap.check_duplicates)} :
                o.exc = rmap.out.exc /\ o.map = rmap.out.map
    /\ rmap.phase = "load"
       => \A q \in Perms(rmap.packets) :
            \E o \in {load_packet_map(rmap.protocol, rmap.check_duplicates,
                                      Yield(rmap.state, q))} :
                o.exc = rmap.out.exc /\ o.packets = rmap.out.packets


---------------------------------------------------------------------------
(* Encrypted streams: EncryptedSocketTCPStream and EncryptedAsyncTCPStream. *)
(* The Cipher is the caller's; the model's is a stream cipher with          *)
(* feedback, as AES/CFB8 is: a context holds the key and the last           *)
(* ciphertext byte, so a byte's image depends on every byte before it.      *)

MaxCrypt == 2

\* cipher.encryptor(), cipher.decryptor()
CipherContext(key) == [key |-> key, fb |-> key]

\* encryptor.update(data): the ciphertext and the context after it
RECURSIVE encryptor_update(_, _)
encryptor_update(ctx, data) ==
    IF data = <<>> THEN [ctx |-> ctx, out |-> <<>>]
    ELSE Bind((Head(data) + ctx.fb + ctx.key) % 256, LAMBDA c :
         Bind(encryptor_update([ctx EXCEPT !.fb = c], Tail(data)), LAMBDA r :
            [ctx |-> r.ctx, out |-> <<c>> \o r.out]))

\* decryptor.update(data): the plaintext and the context after it
RECURSIVE decryptor_update(_, _)
decryptor_update(ctx, data) ==
    IF data = <<>> THEN [ctx |-> ctx, out |-> <<>>]
    ELSE Bind((Head(data) + 512 - ctx.fb - ctx.key) % 256, LAMBDA b :
         Bind(decryptor_update([ctx EXCEPT !.fb = Head(data)], Tail(data)), LAMBDA r :
            [ctx |-> r.ctx, out |-> <<b>> \o r.out]))

\* EncryptedSocketTCPStream(sock, cipher), EncryptedAsyncTCPStream(stream,
\* cipher): the constructor of the plain stream runs first
EncryptedTCPStream_init(kind, conn, key) ==
    Bind(TCPStream_init(kind, conn), LAMBDA s :
        [exc |-> s.exc, stream |-> s.stream,
         decryptor |-> CipherContext(key), encryptor |-> CipherContext(key)])

\* EncryptedSocketTCPStream.write, EncryptedAsyncTCPStream.write: the
\* streams that can result and the bytes the transport took
Encrypted_write(kind, self, data) ==
    Bind(encryptor_update(self.encryptor, data), LAMBDA e :
        {[self |-> [self EXCEPT !.encryptor = e.ctx], sent |-> w] :
            w \in stream_write(kind, e.out)})

\* EncryptedSocketTCPStream.read(length),
\* EncryptedAsyncTCPStream.readexactly(length) on a connection the peer
\* has closed after wire: super's read raises when wire is too short
Encrypted_read(kind, self, wire, length) ==
    IF Len(wire) < length
    THEN [exc |-> IF kind = "socket" THEN "IOError" ELSE "IncompleteReadError",
          self |-> self, val |-> <<>>, wire |-> <<>>]
    ELSE Bind(stream_read(wire, length), LAMBDA r :
         Bind(decryptor_update(self.decryptor, r.val), LAMBDA d :
            [exc |-> "", self |-> [self EXCEPT !.decryptor = d.ctx],
             val |-> d.out, wire |-> r.stream]))

\* read_varint of an encrypted stream: self.read(1) / self.readexactly(1)
\* is the encrypted stream's, then `byte & 0x7F` raises as in the plain
\* stream
Encrypted_read_varint(kind, self, wire) ==
    Bind(Encrypted_read(kind, self, wire, 1), LAMBDA r :
        IF r.exc # "" THEN r ELSE [r EXCEPT !.exc = "TypeError", !.val = <<>>])

CryptKeys == {1, 7}
CryptBytes == UNION {[1..n -> {0, 1, 255}] : n \in 0..MaxCrypt}

\* no program of the encryption harness has run
CryptIdle ==
    [kind |-> "crypt", key |-> 0, data |-> <<>>, op |-> "", length |-> 0,
     exc |-> "", wire |-> <<>>, val |-> <<>>, rest |-> <<>>,
     self |-> EncryptedTCPStream_init("", 0, 0)]

InitCrypt ==
    /\ phase = "crypt"
    /\ encoder = ""
    /\ pkt = NoPacket
    /\ writer = Endpoint(HANDSHAKING, -1)
    /\ reader = [role |-> "", state |-> HANDSHAKING, compression_threshold |-> -1]
    /\ reader0 = reader
    /\ frame = NoFrame
    /\ res = NoResult
    /\ variant \in {"socket", "asyncio"}
    /\ ConnIdle
    /\ task = TaskIdle
    /\ srv = SrvIdle
    /\ rmap = RegIdle
    /\ run = RunIdle
    /\ \E key \in CryptKeys, data \in CryptBytes :
        bh = [CryptIdle EXCEPT !.key = key, !.data = data]

\* stream = Encrypted...TCPStream(conn, cipher); stream.write(data)
CryptWrite ==
    /\ phase = "crypt"
    /\ bh.op = ""
    /\ \E s \in {EncryptedTCPStream_init(variant, 1, bh.key)} :
        IF s.exc # ""
        THEN bh' = [bh EXCEPT !.op = "write", !.exc = s.exc, !.self = s]
        ELSE \E w \in Encrypted_write(variant, s, bh.data) :
                bh' = [bh EXCEPT !.op = "write", !.self = w.self, !.wire = w.sent]
    /\ UNCHANGED <<task, srv, rmap, run>>
    /\ UNCHANGED connVars
    /\ UNCHANGED codecVars

\* the peer has sent data through its encryptor;
\* stream = Encrypted...TCPStream(conn, cipher); stream.read(length) or
\* await stream.readexactly(length)
CryptRead ==
    /\ phase = "crypt"
    /\ bh.op = ""
    /\ \E length \in 0..MaxCrypt :
       \E s \in {EncryptedTCPStream_init(variant, 1, bh.key)} :
       \E wire \in {encryptor_update(CipherContext(bh.key), bh.data).out} :
        IF s.exc # ""
        THEN bh' = [bh EXCEPT !.op = "read", !.length = length, !.exc = s.exc,
                              !.self = s, !.wire = wire, !.rest = wire]
        ELSE \E r \in {Encrypted_read(variant, s, wire, length)} :
                bh' = [bh EXCEPT !.op = "read", !.length = length, !.exc = r.exc,
                                 !.self = r.self, !.wire = wire, !.val = r.val,
                                 !.rest = r.wire]
    /\ UNCHANGED <<task, srv, rmap, run>>
    /\ UNCHANGED connVars
    /\ UNCHANGED codecVars

\* the peer has sent data through its encryptor;
\* stream = Encrypted...TCPStream(conn, cipher); stream.read_varint()
CryptReadVarint ==
    /\ phase = "crypt"
    /\ bh.op = ""
    /\ \E s \in {EncryptedTCPStream_init(variant, 1, bh.key)} :
       \E wire \in {encryptor_update(CipherContext(bh.key), bh.data).out} :
        IF s.exc # ""
        THEN bh' = [bh EXCEPT !.op = "read_varint", !.exc = s.exc, !.self = s,
                              !.wire = wire, !.rest = wire]
        ELSE \E r \in {Encrypted_read_varint(variant, s, wire)} :
                bh' = [bh EXCEPT !.op = "read_varint", !.exc = r.exc,
                                 !.self = r.self, !.wire = wire, !.val = r.val,
                                 !.rest = r.wire]
    /\ UNCHANGED <<task, srv, rmap, run>>
    /\ UNCHANGED connVars
    /\ UNCHANGED codecVars

NextCrypt == CryptWrite \/ CryptRead \/ CryptReadVarint

SpecCrypt == InitCrypt /\ [][NextCrypt]_vars

\* C27: encryption is transparent to framing.  The bytes a write puts on
\* the wire are the plaintext passed once, in order, through the encryptor;
\* the bytes read, readexactly and read_varint consume reach the caller
\* passed once, in order, through the decryptor, so that what the peer
\* wrote is what is read
C27_EncryptionTransparent ==
    /\ bh.op = "write"
       => /\ bh.exc = ""
          /\ bh.wire = encryptor_update(CipherContext(bh.key), bh.data).out
          /\ decryptor_update(CipherContext(bh.key), bh.wire).out = bh.data
    /\ (bh.op = "read" /\ bh.length <= Len(bh.data))
       => /\ bh.exc = ""
          /\ bh.val = SubSeq(bh.data, 1, bh.length)
          /\ bh.val \o decryptor_update(bh.self.decryptor, bh.rest).out = bh.data
    /\ (bh.op = "read_varint" /\ bh.data # <<>>)
       => /\ bh.exc \in {"", "TypeError"}
          /\ <<bh.data[1]>> \o decryptor_update(bh.self.decryptor, bh.rest).out
                = bh.data

---------------------------------------------------------------------------
(* Blocking reads of the socket stream.  What the peer sends arrives as a  *)
(* sequence of chunks, each the most one recv returns; after the last      *)
(* chunk the peer has closed and recv returns b"".                         *)

MaxWire == 3

\* sock.recv(bufsize): the bytes returned and the chunks left
recv(chunks, bufsize) ==
    IF chunks = <<>> THEN [val |-> <<>>, chunks |-> <<>>]
    ELSE IF bufsize >= Len(Head(chunks))
    THEN [val |-> Head(chunks), chunks |-> Tail(chunks)]
    ELSE [val |-> SubSeq(Head(chunks), 1, bufsize),
          chunks |-> <<SubSeq(Head(chunks), bufsize + 1, Len(Head(chunks)))>>
                     \o Tail(chunks)]

\* the loop of SocketTCPStream.read(length)
RECURSIVE socket_read_loop(_, _, _)
socket_read_loop(chunks, result, length) ==
    IF Len(result) >= length THEN [exc |-> "", val |-> result, chunks |-> chunks]
    ELSE Bind(recv(chunks, length - Len(result)), LAMBDA got :
            IF Len(got.val) = 0
            THEN [exc |-> "IOError", val |-> <<>>, chunks |-> got.chunks]
            ELSE socket_read_loop(got.chunks, result \o got.val,
                                  length))

\* SocketTCPStream.read(length)
socket_read(chunks, length) == socket_read_loop(chunks, <<>>, length)

\* SocketTCPStream.read_varint(): the first pass of the loop reads one byte
\* and raises TypeError on `byte & 0x7F`
socket_read_varint(chunks) ==
    Bind(socket_read(chunks, 1), LAMBDA r :
        IF r.exc # "" THEN r ELSE [r EXCEPT !.exc = "TypeError", !.val = <<>>])

\* SocketProtocolServerClient.read_packet(): no length is ever returned to
\* read the frame with
socket_read_packet(chunks) ==
    Bind(socket_read_varint(chunks), LAMBDA length :
        [exc |-> length.exc, pkt |-> NoPacket, chunks |-> length.chunks])

WireBytes == UNION {[1..n -> {0, 1}] : n \in 1..MaxWire}
Chunkings ==
    {c \in UNION {[1..n -> WireBytes] : n \in 0..MaxWire} :
        Len(Flatten(c)) <= MaxWire}

\* no program of the blocking-read harness has run
RecvIdle ==
    [sent |-> <<>>, op |-> "", length |-> 0, exc |-> "", val |-> <<>>,
     pkt |-> NoPacket, chunks |-> <<>>]

InitRecv ==
    /\ phase = "recv"
    /\ encoder = ""
    /\ pkt = NoPacket
    /\ writer = Endpoint(HANDSHAKING, -1)
    /\ reader = [role |-> "", state |-> HANDSHAKING, compression_threshold |-> -1]
    /\ reader0 = reader
    /\ frame = NoFrame
    /\ res = NoResult
    /\ variant = "socket"
    /\ ConnIdle
    /\ task = TaskIdle
    /\ srv = SrvIdle
    /\ rmap = RegIdle
    /\ bh = BufIdle
    /\ \E sent \in Chunkings : run = [RecvIdle EXCEPT !.sent = sent, !.chunks = sent]

\* stream = SocketTCPStream(sock); stream.read(length)
SocketRead ==
    /\ phase = "recv"
    /\ run.op = ""
    /\ \E length \in 0..(MaxWire + 1) :
       \E s \in {TCPStream_init("socket", 1)} :
        IF s.exc # ""
        THEN run' = [run EXCEPT !.op = "read", !.length = length, !.exc = s.exc]
        ELSE \E r \in {socket_read(run.sent, length)} :
                run' = [run EXCEPT !.op = "read", !.length = length,
                                   !.exc = r.exc, !.val = r.val,
                                   !.chunks = r.chunks]
    /\ UNCHANGED <<task, srv, rmap, bh>>
    /\ UNCHANGED connVars
    /\ UNCHANGED codecVars

\* client = SocketProtocolServerClient(SocketTCPStream(sock), packet_map);
\* client.read_packet()
SocketReadPacket ==
    /\ phase = "recv"
    /\ run.op = ""
    /\ \E s \in {TCPStream_init("socket", 1)} :
        IF s.exc # ""
        THEN run' = [run EXCEPT !.op = "read_packet", !.exc = s.exc]
        ELSE \E r \in {socket_read_packet(run.sent)} :
                run' = [run EXCEPT !.op = "read_packet", !.exc = r.exc,
                                   !.pkt = r.pkt, !.chunks = r.chunks]
    /\ UNCHANGED <<task, srv, rmap, bh>>
    /\ UNCHANGED connVars
    /\ UNCHANGED codecVars

NextRecv == SocketRead \/ SocketReadPacket

SpecRecv == InitRecv /\ [][NextRecv]_vars

\* C30: read(n) returns the first n bytes the peer sent, in order, however
\* recv splits them, and raises when the peer closed before n bytes
\* arrived; read_packet ends by returning a packet or raising, and
\* returns a packet only when the bytes received begin with a whole frame
C30_BlockingRead ==
    /\ run.op = "read"
       => IF run.length <= Len(Flatten(run.sent))
          THEN /\ run.exc = ""
               /\ run.val = SubSeq(Flatten(run.sent), 1, run.length)
               /\ run.val \o Flatten(run.chunks) = Flatten(run.sent)
          ELSE run.exc = "IOError"
    /\ run.op = "read_packet"
       => \/ run.exc \in {"IOError", "TypeError", "UnknownPacketIdError"}
          \/ /\ run.exc = ""
             /\ Flatten(run.sent) # <<>>
             /\ Len(Flatten(run.sent)) >= 1 + Flatten(run.sent)[1]

---------------------------------------------------------------------------
(* types/registry.py: Registry, a forward dict and a reverse dict.  A dict  *)
(* is held as the sequence of its <<key, value>> items in insertion order.  *)

MaxPairs == 2

\* dict(items): a key keeps the place of its first item and the value of
\* its last
RECURSIVE Dict(_)
Dict(items) ==
    IF items = <<>> THEN <<>>
    ELSE Bind(SelectSeq(items, LAMBDA t : t[1] = Head(items)[1]), LAMBDA same :
            <<same[Len(same)]>>
            \o Dict(SelectSeq(items, LAMBDA t : t[1] # Head(items)[1])))

\* d[key]: KeyError when key is no key of d
GetItem(d, key) ==
    IF \E i \in DOMAIN d : d[i][1] = key
    THEN [exc |-> "", val |-> d[CHOOSE i \in DOMAIN d : d[i][1] = key][2]]
    ELSE [exc |-> "KeyError", val |-> -1]

\* Registry.__init__(data, data_reversed); given is FALSE for
\* data_reversed=None
Registry_init(data, given, data_reversed) ==
    [data |-> Dict(data),
     data_reversed |->
        IF given THEN data_reversed
        ELSE Dict([i \in DOMAIN Dict(data) |-> <<Dict(data)[i][2], Dict(data)[i][1]>>])]

\* Registry.from_sequence(seq, reversed_data)
Registry_from_sequence(seq, given, reversed_data) ==
    Registry_init([i \in DOMAIN seq |-> <<seq[i], i - 1>>], given, reversed_data)

\* Registry.encode(key)
Registry_encode(reg, key) == GetItem(reg.data, key)

\* Registry.decode(value)
Registry_decode(reg, value) == GetItem(reg.data_reversed, value)

\* keys and values of the data tables of the harness
RegistryKeys == {10, 11, 12}
RegistryValues == {0, 1, 2}

\* mappings given as data, as the reverse mapping, and sequences given to
\* from_sequence
Mappings(K, V) ==
    {m \in UNION {[1..n -> K \X V] : n \in 0..MaxPairs} :
        \A i, j \in DOMAIN m : m[i][1] = m[j][1] => i = j}
RegistrySequences == UNION {[1..n -> RegistryKeys] : n \in 0..MaxPairs}

\* no Registry has been built
DataIdle ==
    [built |-> "", seq |-> <<>>, reg |-> Registry_init(<<>>, FALSE, <<>>),
     op |-> "", arg |-> -1, out |-> GetItem(<<>>, -1), back |-> GetItem(<<>>, -1)]

InitData ==
    /\ phase = "data"
    /\ encoder = ""
    /\ pkt = NoPacket
    /\ writer = Endpoint(HANDSHAKING, -1)
    /\ reader = [role |-> "", state |-> HANDSHAKING, compression_threshold |-> -1]
    /\ reader0 = reader
    /\ frame = NoFrame
    /\ res = NoResult
    /\ variant = "socket"
    /\ ConnIdle
    /\ task = TaskIdle
    /\ srv = SrvIdle
    /\ bh = BufIdle
    /\ run = RunIdle
    /\ rmap = DataIdle

\* Registry(data) and Registry(data, data_reversed)
RegistryInit ==
    /\ phase = "data"
    /\ rmap.built = ""
    /\ \E data \in Mappings(RegistryKeys, RegistryValues), given \in BOOLEAN :
        \E data_reversed \in IF given THEN Mappings(RegistryValues, RegistryKeys)
                             ELSE {<<>>} :
            rmap' = [rmap EXCEPT
                      !.built = IF given THEN "reversed" ELSE "mapping",
                      !.reg = Registry_init(data, given, data_reversed)]
    /\ UNCHANGED <<task, srv, bh, run>>
    /\ UNCHANGED connVars
    /\ UNCHANGED codecVars

\* Registry.from_sequence(seq)
RegistryFromSequence ==
    /\ phase = "data"
    /\ rmap.built = ""
    /\ \E seq \in RegistrySequences :
        rmap' = [rmap EXCEPT !.built = "sequence", !.seq = seq,
                             !.reg = Registry_from_sequence(seq, FALSE, <<>>)]
    /\ UNCHANGED <<task, srv, bh, run>>
    /\ UNCHANGED connVars
    /\ UNCHANGED codecVars

\* registry.decode(registry.encode(key)); the second call is made when the
\* first returned
RegistryEncode ==
    /\ phase = "data"
    /\ rmap.built # ""
    /\ \E key \in RegistryKeys :
        \E out \in {Registry_encode(rmap.reg, key)} :
            rmap' = [rmap EXCEPT
                      !.op = "encode", !.arg = key, !.out = out,
                      !.back = IF out.exc = "" THEN Registry_decode(rmap.reg, out.val)
                               ELSE GetItem(<<>>, -1)]
    /\ UNCHANGED <<task, srv, bh, run>>
    /\ UNCHANGED connVars
    /\ UNCHANGED codecVars

\* registry.encode(registry.decode(value))
RegistryDecode ==
    /\ phase = "data"
    /\ rmap.built # ""
    /\ \E value \in RegistryValues :
        \E out \in {Registry_decode(rmap.reg, value)} :
            rmap' = [rmap EXCEPT
                      !.op = "decode", !.arg = value, !.out = out,
                      !.back = IF out.exc = "" THEN Registry_encode(rmap.reg, out.val)
                               ELSE GetItem(<<>>, -1)]
    /\ UNCHANGED <<task, srv, bh, run>>
    /\ UNCHANGED connVars
    /\ UNCHANGED codecVars

NextData == RegistryInit \/ RegistryFromSequence \/ RegistryEncode \/ RegistryDecode

SpecData == InitData /\ [][NextData]_vars

\* C26: the forward and the reverse mapping of a Registry are mutually
\* inverse: decode(encode(k)) = k for every key k, encode(decode(v)) = v for
\* every value v, and for from_sequence(seq) encode(seq[i]) = i and
\* decode(i) = seq[i] for every index i of seq
C26_MutuallyInverse ==
    /\ rmap.op = "encode" /\ rmap.out.exc = ""
       => rmap.back = [exc |-> "", val |-> rmap.arg]
    /\ rmap.op = "decode" /\ rmap.out.exc = ""
       => rmap.back = [exc |-> "", val |-> rmap.arg]
    /\ rmap.built = "sequence"
       => \A i \in DOMAIN rmap.seq :
            /\ Registry_encode(rmap.reg, rmap.seq[i]) = [exc |-> "", val |-> i - 1]
            /\ Registry_decode(rmap.reg, i - 1) = [exc |-> "", val |-> rmap.seq[i]]

---------------------------------------------------------------------------
(* Buffer harness: values are written to a Buffer and read back            *)
(* (kind "varint", "optional", "string"), or a Buffer made of given bytes  *)
(* is read (kind "raw").                                                   *)

MaxValues == 2
MaxRaw == 6
MaxCursor == 2

\* values given to write_varint: the values of tests/test_buffer.py, the
\* limits of 16 and of 32 bits and the first values beyond them
VarintValues ==
    {<<0, v>> : v \in {0, 1, 2, 127, 128, 3749146, -1, -2, -3, -3749146,
                       32767, 32768, -32768, -32769, INT_MAX, INT_MIN}}
    \cup {<<1, INT_MIN>>, <<-1, INT_MAX>>}

\* values given to write_optional_varint, None among them
OptionalValues ==
    {<<>>} \cup {<<0, v>> : v \in {0, 1, 2, 3, -1, -2, INT_MAX - 1, INT_MAX, INT_MIN}}

\* s repeated 2^k times
RECURSIVE Doubled(_, _)
Doubled(s, k) == IF k = 0 THEN s ELSE Doubled(s \o s, k - 1)

\* strings given to write_string; the last is 32768 bytes long
HarnessStrings == {<<>>, <<108>>, <<108, 108>>, Doubled(<<108>>, 15)}

\* byte strings of the Buffers the cursor operations are applied to, and
\* the lengths and formats asked for
CursorBytes == UNION {[1..n -> {0, 1, 128, 255}] : n \in 0..MaxCursor}
CursorLengths == 0..MaxCursor
CursorFormats == {"B", "H"}

\* tags put into a TAG_Compound: one of each class the model packs, the
\* limits of TAG_Byte, empty and nested lists and compounds
NbtChildren ==
    << Tag(1, <<98>>, <<-128>>), Tag(1, <<98>>, <<-1>>), Tag(1, <<98>>, <<0>>),
       Tag(1, <<98>>, <<1>>), Tag(1, <<98>>, <<127>>),
       Tag(2, <<115>>, <<-2>>), Tag(3, <<105>>, <<-3>>), Tag(4, <<113>>, <<-2>>),
       Tag(7, <<121>>, <<1, 255>>), Tag(8, <<115>>, <<108>>),
       Tag(9, <<101>>, <<>>),
       Tag(9, <<108>>, <<Tag(2, <<>>, <<1>>), Tag(2, <<>>, <<2>>)>>),
       Tag(9, <<108>>, <<Tag(9, <<>>, <<Tag(3, <<>>, <<1>>)>>), Tag(9, <<>>, <<>>)>>),
       Tag(9, <<107>>, <<Tag(10, <<>>, <<Tag(2, <<98>>, <<1>>)>>)>>),
       Tag(10, <<99>>, <<Tag(8, <<115>>, <<108>>)>>),
       Tag(10, <<99>>, <<>>),
       Tag(11, <<105>>, <<<<-1>>, <<5>>>>), Tag(12, <<119>>, <<<<3>>>>) >>

\* the compounds given to pack: no child, one child, or two
NbtTags ==
    [k \in 1..(2 + 2 * Len(NbtChildren)) |->
        IF k = 1 THEN Tag(10, <<>>, <<>>)
        ELSE IF k = 2 THEN Tag(10, <<97>>, <<>>)
        ELSE IF k <= 2 + Len(NbtChildren) THEN Tag(10, <<>>, <<NbtChildren[k - 2]>>)
        ELSE Tag(10, <<97>>, <<NbtChildren[k - 2 - Len(NbtChildren)],
                               Tag(2, <<122>>, <<7>>)>>)]

\* values of the classes that define both pack and unpack, the values of
\* tests/test_packets.py among them; the last has a name of 32768 bytes
RoundTripPackets ==
    {Packet("StatusStatusRequest", <<>>)}
    \cup {Packet("StatusStatusResponse", <<<<j>>>>) : j \in JsonValues}
    \cup {Packet("StatusStatusPingPong", <<v>>) :
            v \in {<<0>>, <<1>>, <<-1>>, <<128, 0, 0, 0, 0, 0, 0, 0>>,
                   <<127, 255, 255, 255, 255, 255, 255, 255>>}}
    \cup {Packet("LoginStart", <<u>>) : u \in {<<>>, <<108>>, <<108, 108>>}}
    \cup {Packet(c, <<k, t>>) :
            c \in {"LoginEncryptionRequest", "LoginEncryptionResponse"},
            k \in {<<>>, <<97, 98, 99, 1, 2, 3>>}, t \in {<<>>, <<0>>, <<255, 1>>}}
    \cup {Packet("LoginSuccess", <<Repeat(b, 16), u>>) :
            b \in {0, 255}, u \in {<<>>, <<108>>}}
    \cup {Packet("LoginDisconnect", <<<<j>>>>) : j \in JsonValues}
    \cup {Packet("LoginSetCompression", <<<<t>>>>) : t \in {-1, 0, 1, 256, INT_MAX, INT_MIN}}
    \cup {Packet("LoginPluginRequest", <<<<i>>, c, d>>) :
            i \in {1, -1}, c \in {<<>>, <<108>>}, d \in {<<>>, <<0>>, <<97, 98, 99>>}}
    \cup {Packet("LoginPluginResponse", <<<<i>>, d>>) :
            i \in {1, -1}, d \in {<<-1>>, <<>>, <<0>>, <<97, 98, 99>>}}
    \cup {Packet("LoginStart", <<Doubled(<<108>>, 15)>>)}

\* coordinates given to write_position: those of the spec's examples,
\* small ones and the limits of 26 and of 12 bits
PositionXZ == {0, 1, 3, -1, -4000000, 33554431, -33554432}
PositionY == {0, 2, 13, 14, -40, 2047, -2048}

\* byte strings a Buffer is made of
RawBytes ==
    UNION {[1..n -> {0, 1, 128, 255}] : n \in 0..MaxRaw}

MaxEntries == 2

\* an item ((index, type), v) of the dict given to write_entity_metadata
Entry(index, type, v) == [index |-> index, type |-> type, v |-> v]

\* a dict given to write_slot and a dict given to write_particle
Slot(item_id, count, tag) == [item_id |-> item_id, count |-> count, tag |-> tag]
Particle(particle_id, block_state, colour, item) ==
    [particle_id |-> particle_id, block_state |-> block_state,
     red |-> colour[1], green |-> colour[2], blue |-> colour[3],
     scale |-> colour[4], item |-> item]

\* the values of the entries: each type code 0..18 at least once, None and
\* a value where the type is optional; the index of an entry is its place
MetadataValues ==
    << <<0, <<-1>>>>, <<1, <<300>>>>, <<2, <<1>>>>, <<3, <<108>>>>, <<4, <<1>>>>,
       <<5, <<>>>>, <<5, <<1>>>>,
       <<6, Slot(<<>>, 1, NoneTag)>>, <<6, Slot(<<5>>, 2, NoneTag)>>,
       <<6, Slot(<<5>>, 2, Tag(10, <<>>, <<>>))>>,
       <<7, <<1>>>>, <<8, <<1, -2, 0>>>>, <<9, <<1, 2, 3>>>>,
       <<10, <<>>>>, <<10, <<0, 0, 0>>>>, <<10, <<1, 2, 3>>>>,
       <<11, <<5>>>>, <<12, <<>>>>, <<12, Repeat(0, 15) \o <<1>>>>,
       <<13, <<7>>>>, <<14, Tag(10, <<>>, <<>>)>>,
       <<15, Particle(0, 0, <<0, 0, 0, 0>>, Slot(<<>>, 1, NoneTag))>>,
       <<15, Particle(3, 9, <<0, 0, 0, 0>>, Slot(<<>>, 1, NoneTag))>>,
       <<15, Particle(14, 0, <<1, 0, 3, 1>>, Slot(<<>>, 1, NoneTag))>>,
       <<15, Particle(32, 0, <<0, 0, 0, 0>>, Slot(<<5>>, 2, NoneTag))>>,
       <<16, <<1, 2, 3>>>>, <<17, <<>>>>, <<17, <<0, 5>>>>, <<18, <<6>>>>,
       <<19, <<0>>>> >>

MetadataEntries ==
    [k \in DOMAIN MetadataValues |->
        Entry(IF k = 1 THEN 255 ELSE k, MetadataValues[k][1], MetadataValues[k][2])]

\* the dicts given to write_entity_metadata, as the places of their items
MetadataDicts ==
    {ks \in UNION {[1..n -> DOMAIN MetadataEntries] : n \in 0..MaxEntries} :
        \A i, j \in DOMAIN ks : ks[i] = ks[j] => i = j}

InitBuf ==
    /\ phase = "buffer"
    /\ encoder = ""
    /\ pkt = NoPacket
    /\ writer = Endpoint(HANDSHAKING, -1)
    /\ reader = [role |-> "", state |-> HANDSHAKING, compression_threshold |-> -1]
    /\ reader0 = reader
    /\ frame = NoFrame
    /\ res = NoResult
    /\ variant = "socket"
    /\ ConnIdle
    /\ task = TaskIdle
    /\ srv = SrvIdle
    /\ rmap = RegIdle
    /\ run = RunIdle
    /\ \/ \E kind \in {"varint", "optional", "string", "position", "nbt",
                        "packet", "metadata"} :
            bh = [BufIdle EXCEPT !.kind = kind]
       \/ \E data \in CursorBytes :
            bh = [BufIdle EXCEPT !.kind = "cursor", !.buf = Buffer(data)]
       \/ \E data \in RawBytes :
            bh = [BufIdle EXCEPT !.kind = "raw", !.buf = Buffer(data)]

Called(op, arg, max_bits, r) ==
    [op |-> op, arg |-> arg, max_bits |-> max_bits, exc |-> r.exc,
     val |-> r.val, before |-> bh.buf]

\* buf.write_varint(v, max_bits=b)
WriteVarint ==
    /\ phase = "buffer"
    /\ bh.kind = "varint"
    /\ bh.calls < MaxValues
    /\ \E v \in VarintValues, b \in {16, 32} :
       \E r \in {write_varint_wide(bh.buf, v, b)} :
        bh' = [bh EXCEPT !.buf = r.buf,
                         !.written = IF r.exc = "" THEN Append(@, v) ELSE @,
                         !.calls = @ + 1,
                         !.last = Called("write_varint", v, b, r)]
    /\ UNCHANGED <<task, srv, rmap, run>>
    /\ UNCHANGED connVars
    /\ UNCHANGED codecVars

\* buf.read_varint(): of a value written before, or of the given bytes
ReadVarint ==
    /\ phase = "buffer"
    /\ \/ bh.kind = "varint" /\ Len(bh.got) < Len(bh.written)
       \/ bh.kind = "raw" /\ bh.last.op = ""
    /\ \E r \in {read_varint(bh.buf, 32)} :
        bh' = [bh EXCEPT !.buf = r.buf,
                         !.got = IF r.exc = "" THEN Append(@, <<0, r.val[1]>>) ELSE @,
                         !.last = Called("read_varint", <<>>, 32, r)]
    /\ UNCHANGED <<task, srv, rmap, run>>
    /\ UNCHANGED connVars
    /\ UNCHANGED codecVars

\* stream.read_varint() on a stream that holds the given bytes
StreamReadVarint ==
    /\ phase = "buffer"
    /\ bh.kind = "raw"
    /\ bh.last.op = ""
    /\ bh.buf.data # <<>>
    /\ \E r \in {stream_read_varint(bh.buf.data)} :
        bh' = [bh EXCEPT !.buf = [data |-> bh.buf.data,
                                  pos |-> Len(bh.buf.data) - Len(r.stream)],
                         !.last = Called("stream.read_varint", <<>>, 32, r)]
    /\ UNCHANGED <<task, srv, rmap, run>>
    /\ UNCHANGED connVars
    /\ UNCHANGED codecVars

\* buf.write_string(s); the string is recorded by its length
WriteString ==
    /\ phase = "buffer"
    /\ bh.kind = "string"
    /\ bh.calls < MaxValues
    /\ \E s \in HarnessStrings :
       \E r \in {write_string(bh.buf, s)} :
        bh' = [bh EXCEPT !.buf = r.buf,
                         !.calls = @ + 1,
                         !.last = Called("write_string", <<0, Len(s)>>, 16, r)]
    /\ UNCHANGED <<task, srv, rmap, run>>
    /\ UNCHANGED connVars
    /\ UNCHANGED codecVars

\* buf.write_optional_varint(v)
WriteOptionalVarint ==
    /\ phase = "buffer"
    /\ bh.kind = "optional"
    /\ bh.calls < MaxValues
    /\ bh.got = <<>>
    /\ \E v \in OptionalValues :
       \E r \in {write_optional_varint(bh.buf, v)} :
        bh' = [bh EXCEPT !.buf = r.buf,
                         !.written = IF r.exc = "" THEN Append(@, v) ELSE @,
                         !.calls = @ + 1,
                         !.last = Called("write_optional_varint", v, 32, r)]
    /\ UNCHANGED <<task, srv, rmap, run>>
    /\ UNCHANGED connVars
    /\ UNCHANGED codecVars

\* buf.read_optional_varint()
ReadOptionalVarint ==
    /\ phase = "buffer"
    /\ bh.kind = "optional"
    /\ Len(bh.got) < Len(bh.written)
    /\ \E r \in {read_optional_varint(bh.buf)} :
        bh' = [bh EXCEPT !.buf = r.buf,
                         !.got = IF r.exc = "" THEN Append(@, r.val) ELSE @,
                         !.last = Called("read_optional_varint", <<>>, 32, r)]
    /\ UNCHANGED <<task, srv, rmap, run>>
    /\ UNCHANGED connVars
    /\ UNCHANGED codecVars

\* buf.write_position(x, y, z)
WritePosition ==
    /\ phase = "buffer"
    /\ bh.kind = "position"
    /\ bh.calls < MaxValues
    /\ bh.got = <<>>
    /\ \E x \in PositionXZ, y \in PositionY, z \in PositionXZ :
       \E r \in {write_position(bh.buf, x, y, z)} :
        bh' = [bh EXCEPT !.buf = r.buf,
                         !.written = IF r.exc = "" THEN Append(@, <<x, y, z>>) ELSE @,
                         !.calls = @ + 1,
                         !.last = Called("write_position", <<x, y, z>>, 64, r)]
    /\ UNCHANGED <<task, srv, rmap, run>>
    /\ UNCHANGED connVars
    /\ UNCHANGED codecVars

\* buf.read_position()
ReadPosition ==
    /\ phase = "buffer"
    /\ bh.kind = "position"
    /\ Len(bh.got) < Len(bh.written)
    /\ \E r \in {read_position(bh.buf)} :
        bh' = [bh EXCEPT !.buf = r.buf,
                         !.got = IF r.exc = "" THEN Append(@, r.val) ELSE @,
                         !.last = Called("read_position", <<>>, 64, r)]
    /\ UNCHANGED <<task, srv, rmap, run>>
    /\ UNCHANGED connVars
    /\ UNCHANGED codecVars

\* buf.read_byte()
BufReadByte ==
    /\ phase = "buffer"
    /\ bh.kind = "cursor"
    /\ bh.calls < MaxValues
    /\ \E r \in {read_byte(bh.buf)} :
        bh' = [bh EXCEPT !.buf = r.buf, !.calls = @ + 1,
                         !.last = Called("read_byte", <<>>, 8, r)]
    /\ UNCHANGED <<task, srv, rmap, run>>
    /\ UNCHANGED connVars
    /\ UNCHANGED codecVars

\* buf.read_bytes(n) and buf.read_bytes(); arg is <<n>>, <<>> for None
BufReadBytes ==
    /\ phase = "buffer"
    /\ bh.kind = "cursor"
    /\ bh.calls < MaxValues
    /\ \/ \E n \in CursorLengths :
          \E r \in {read_bytes(bh.buf, n)} :
            bh' = [bh EXCEPT !.buf = r.buf, !.calls = @ + 1,
                             !.last = Called("read_bytes", <<n>>, 8, r)]
       \/ \E r \in {read_bytes_all(bh.buf)} :
            bh' = [bh EXCEPT !.buf = r.buf, !.calls = @ + 1,
                             !.last = Called("read_bytes", <<>>, 8, r)]
    /\ UNCHANGED <<task, srv, rmap, run>>
    /\ UNCHANGED connVars
    /\ UNCHANGED codecVars

\* buf.read(fmt); arg is <<calcsize(fmt)>>
BufRead ==
    /\ phase = "buffer"
    /\ bh.kind = "cursor"
    /\ bh.calls < MaxValues
    /\ \E fmt \in CursorFormats :
       \E r \in {read(bh.buf, fmt)} :
        bh' = [bh EXCEPT !.buf = r.buf, !.calls = @ + 1,
                         !.last = Called("read", <<calcsize(fmt)>>, 8, r)]
    /\ UNCHANGED <<task, srv, rmap, run>>
    /\ UNCHANGED connVars
    /\ UNCHANGED codecVars

\* buf.write(fmt, value), a typed write
BufWrite ==
    /\ phase = "buffer"
    /\ bh.kind = "cursor"
    /\ bh.calls < MaxValues
    /\ \E fmt \in CursorFormats :
       \E r \in {Ret("", <<>>, write(bh.buf, fmt, <<1>>))} :
        bh' = [bh EXCEPT !.buf = r.buf, !.calls = @ + 1,
                         !.last = Called("write", <<calcsize(fmt)>>, 8, r)]
    /\ UNCHANGED <<task, srv, rmap, run>>
    /\ UNCHANGED connVars
    /\ UNCHANGED codecVars

\* buf.reset(): self.pos = 0
BufReset ==
    /\ phase = "buffer"
    /\ bh.kind = "cursor"
    /\ bh.calls < MaxValues
    /\ \E r \in {Ret("", <<>>, [bh.buf EXCEPT !.pos = 0])} :
        bh' = [bh EXCEPT !.buf = r.buf, !.calls = @ + 1,
                         !.last = Called("reset", <<>>, 8, r)]
    /\ UNCHANGED <<task, srv, rmap, run>>
    /\ UNCHANGED connVars
    /\ UNCHANGED codecVars

\* buf.clear(): bytearray.clear() and self.pos = 0
BufClear ==
    /\ phase = "buffer"
    /\ bh.kind = "cursor"
    /\ bh.calls < MaxValues
    /\ \E r \in {Ret("", <<>>, [data |-> <<>>, pos |-> 0])} :
        bh' = [bh EXCEPT !.buf = r.buf, !.calls = @ + 1,
                         !.last = Called("clear", <<>>, 8, r)]
    /\ UNCHANGED <<task, srv, rmap, run>>
    /\ UNCHANGED connVars
    /\ UNCHANGED codecVars

\* Buffer().write_nbt(n), or Buffer(gzip.compress(n.pack()))
NbtPack ==
    /\ phase = "buffer"
    /\ bh.kind = "nbt"
    /\ bh.written = <<>>
    /\ \E k \in DOMAIN NbtTags, gz \in BOOLEAN :
       \E n \in {NbtTags[k]} :
       \E r \in {Ret("", <<>>, IF gz THEN Buffer(gzip_compress(pack_tag(n, TRUE)))
                               ELSE write_nbt(Buffer(<<>>), n))} :
        bh' = [bh EXCEPT !.buf = r.buf, !.written = <<n>>, !.calls = @ + 1,
                         !.last = Called(IF gz THEN "gzip" ELSE "write_nbt",
                                         n, 8, r)]
    /\ UNCHANGED <<task, srv, rmap, run>>
    /\ UNCHANGED connVars
    /\ UNCHANGED codecVars

\* nbt.unpack(buf)
NbtUnpack ==
    /\ phase = "buffer"
    /\ bh.kind = "nbt"
    /\ bh.last.op \in {"gzip", "write_nbt"}
    /\ \E r \in {nbt_unpack(bh.buf)} :
        bh' = [bh EXCEPT !.buf = r.buf,
                         !.got = IF r.exc = "" THEN <<r.val>> ELSE @,
                         !.last = Called("nbt.unpack", <<>>, 8, r)]
    /\ UNCHANGED <<task, srv, rmap, run>>
    /\ UNCHANGED connVars
    /\ UNCHANGED codecVars

\* buf.read_nbt()
BufReadNbt ==
    /\ phase = "buffer"
    /\ bh.kind = "nbt"
    /\ bh.last.op \in {"gzip", "write_nbt"}
    /\ \E r \in {read_nbt(bh.buf)} :
        bh' = [bh EXCEPT !.buf = r.buf,
                         !.got = IF r.exc = "" THEN <<r.val>> ELSE @,
                         !.last = Called("read_nbt", <<>>, 8, r)]
    /\ UNCHANGED <<task, srv, rmap, run>>
    /\ UNCHANGED connVars
    /\ UNCHANGED codecVars

\* packet.pack()
PacketPack ==
    /\ phase = "buffer"
    /\ bh.kind = "packet"
    /\ bh.written = <<>>
    /\ bh.last.op = ""
    /\ \E p \in RoundTripPackets :
       \E r \in {pack(p)} :
        bh' = [bh EXCEPT !.buf = Buffer(r.val),
                         !.written = IF r.exc = "" THEN <<p>> ELSE @,
                         !.calls = @ + 1,
                         !.last = Called("pack", p, 8, Ret(r.exc, <<>>, Buffer(r.val)))]
    /\ UNCHANGED <<task, srv, rmap, run>>
    /\ UNCHANGED connVars
    /\ UNCHANGED codecVars

\* packet_class.unpack(buffer) of the Buffer pack returned
PacketUnpack ==
    /\ phase = "buffer"
    /\ bh.kind = "packet"
    /\ bh.written # <<>>
    /\ bh.last.op = "pack"
    /\ \E r \in {unpack(bh.written[1].cls, bh.buf)} :
        bh' = [bh EXCEPT !.got = IF r.exc = "" THEN <<r.pkt>> ELSE @,
                         !.last = Called("unpack", <<>>, 8, Ret(r.exc, r.pkt, bh.buf))]
    /\ UNCHANGED <<task, srv, rmap, run>>
    /\ UNCHANGED connVars
    /\ UNCHANGED codecVars

\* Buffer().write_entity_metadata(value)
WriteEntityMetadata ==
    /\ phase = "buffer"
    /\ bh.kind = "metadata"
    /\ bh.calls = 0
    /\ \E ks \in MetadataDicts :
       \E value \in {[i \in DOMAIN ks |-> MetadataEntries[ks[i]]]} :
       \E r \in {write_entity_metadata(Buffer(<<>>), value)} :
        bh' = [bh EXCEPT !.buf = r.buf, !.written = value, !.calls = @ + 1,
                         !.last = Called("write_entity_metadata", ks, 32, r)]
    /\ UNCHANGED <<task, srv, rmap, run>>
    /\ UNCHANGED connVars
    /\ UNCHANGED codecVars

NextBuf ==
    \/ WriteEntityMetadata
    \/ WriteVarint
    \/ ReadVarint
    \/ StreamReadVarint
    \/ WriteString
    \/ WriteOptionalVarint
    \/ ReadOptionalVarint
    \/ WritePosition
    \/ ReadPosition
    \/ BufReadByte
    \/ BufReadBytes
    \/ BufRead
    \/ BufWrite
    \/ BufReset
    \/ BufClear
    \/ NbtPack
    \/ NbtUnpack
    \/ BufReadNbt
    \/ PacketPack
    \/ PacketUnpack

SpecBuf == InitBuf /\ [][NextBuf]_vars


---------------------------------------------------------------------------
(* Properties of the Buffer (SpecBuf) *)

\* the 7-bit groups of x mod 2^32, least significant first
Groups(x) ==
    [k \in 1..5 |-> IF k < 5 THEN (x \div 128 ^ (k - 1)) % 128
                    ELSE (x \div 128 ^ 4) % 16]

\* the little-endian base-128 encoding of x mod 2^32: the groups up to the
\* last that is not zero, at least one, each but the last with the high
\* bit set
LEB128(x) ==
    \* n is the number of groups written
    [k \in 1..(CHOOSE n \in 1..5 :
                /\ \A j \in (n + 1)..5 : Groups(x)[j] = 0
                /\ n = 1 \/ Groups(x)[n] # 0) |->
        IF \E j \in (k + 1)..5 : Groups(x)[j] # 0 THEN Groups(x)[k] + 128
        ELSE Groups(x)[k]]

\* C17: write_varint(v) for v in [-2^31, 2^31 - 1] appends the
\* little-endian base-128 encoding of v mod 2^32, 1 to 5 bytes
\* (2147483647 -> FF FF FF FF 07, -1 -> FF FF FF FF 0F), and a following
\* read_varint returns v and advances pos by the number of bytes written
C17_VarintCodec ==
    /\ (bh.last.op = "write_varint" /\ bh.last.max_bits = 32 /\ bh.last.arg[1] = 0)
       => /\ bh.last.exc = ""
          /\ bh.buf.data = bh.last.before.data \o LEB128(bh.last.arg[2])
          /\ Len(bh.buf.data) - Len(bh.last.before.data) \in 1..5
          /\ bh.buf.pos = bh.last.before.pos
          /\ bh.last.arg[2] = INT_MAX
             => LEB128(bh.last.arg[2]) = <<255, 255, 255, 255, 7>>
          /\ bh.last.arg[2] = -1
             => LEB128(bh.last.arg[2]) = <<255, 255, 255, 255, 15>>
    /\ (bh.kind = "varint" /\ bh.last.op = "read_varint")
       => /\ bh.last.exc = ""
          /\ bh.got[Len(bh.got)] = bh.written[Len(bh.got)]
          /\ bh.buf.pos = bh.last.before.pos
                          + Len(LEB128(bh.written[Len(bh.got)][2]))

\* 2147483647 and -1 have been written and both have been read back
C17_Witness ==
    /\ bh.kind = "varint"
    /\ bh.last.op = "read_varint"
    /\ bh.written = <<<<0, INT_MAX>>, <<0, -1>>>>
    /\ bh.got = bh.written
    /\ bh.buf.data = <<255, 255, 255, 255, 7, 255, 255, 255, 255, 15>>
    /\ bh.buf.pos = 10

\* v is outside [-(2^(b-1)), 2^(b-1) - 1] for b in {16, 32}
OutOfRange(v, b) ==
    \/ v[1] # 0
    \/ b = 16 /\ (v[2] < -32768 \/ v[2] > 32767)

\* C18: write_varint(v, max_bits=b) with v out of range raises ValueError
\* and leaves the bytes and pos of the buffer as they were, so do
\* write_varint(2147483648) and write_varint(-2147483649), and write_string
\* of a string longer than 32767 bytes raises without appending a byte
C18_OutOfRangeWrite ==
    /\ (bh.last.op = "write_varint" /\ OutOfRange(bh.last.arg, bh.last.max_bits))
       => /\ bh.last.exc = "ValueError"
          /\ bh.buf = bh.last.before
    /\ (bh.last.op = "write_string" /\ bh.last.arg[2] > 32767)
       => /\ bh.last.exc = "ValueError"
          /\ bh.buf = bh.last.before

\* write_varint(2147483648) has raised on a buffer that held a value
C18_Witness ==
    /\ bh.last.op = "write_varint"
    /\ bh.last.arg = <<1, INT_MIN>>
    /\ bh.last.max_bits = 32
    /\ bh.last.exc = "ValueError"
    /\ bh.last.before.data # <<>>
    /\ bh.buf = bh.last.before

\* the first five bytes at pos all have the continuation bit
FiveContinue(buf) ==
    /\ Len(buf.data) >= buf.pos + 5
    /\ \A k \in 1..5 : buf.data[buf.pos + k] >= 128

\* C19: read_varint of the Buffer and of the streams fails on every byte
\* string whose first five bytes have the continuation bit, consumes at
\* most five bytes and returns no value for an encoding longer than five
\* bytes
C19_OverlongVarint ==
    (bh.kind = "raw" /\ bh.last.op \in {"read_varint", "stream.read_varint"})
    => /\ FiveContinue(bh.last.before) => bh.last.exc # ""
       /\ bh.buf.pos - bh.last.before.pos <= 5

\* C20: the values written with write_optional_varint come back from
\* read_optional_varint in the same order, None as None and every integer,
\* negative or 0, as itself
C20_OptionalVarint ==
    (bh.kind = "optional" /\ bh.last.op = "read_optional_varint")
    => /\ bh.last.exc = ""
       /\ bh.got[Len(bh.got)] = bh.written[Len(bh.got)]

\* what read_optional_varint returns for a value that was written: -1 is
\* written as 0, which is None
ReadBack(v) == IF v = <<0, -1>> THEN <<>> ELSE v

\* C20 (amended): write_optional_varint writes 0 for None and x + 1 for an
\* integer x, and refuses x = 2147483647; the values written come back from
\* read_optional_varint in the same order, None as None and every integer
\* but -1 as itself, while -1 comes back as None
C20_OptionalVarintAmended ==
    /\ (bh.last.op = "write_optional_varint" /\ bh.last.exc = "")
       => bh.buf.data = bh.last.before.data
            \o (IF bh.last.arg = <<>> THEN <<0>>
                ELSE LEB128(Succ(bh.last.arg)[2]))
    /\ bh.last.op = "write_optional_varint"
       => (bh.last.exc # "" <=> bh.last.arg = <<0, INT_MAX>>)
    /\ (bh.kind = "optional" /\ bh.last.op = "read_optional_varint")
       => /\ bh.last.exc = ""
          /\ bh.got[Len(bh.got)] = ReadBack(bh.written[Len(bh.got)])

\* -1 and -2 have been written and read: None and -2 came back
C20_Witness ==
    /\ bh.kind = "optional"
    /\ bh.last.op = "read_optional_varint"
    /\ bh.written = <<<<0, -1>>, <<0, -2>>>>
    /\ bh.got = <<<<>>, <<0, -2>>>>
    /\ bh.buf.pos = Len(bh.buf.data)

\* the eight bytes of ((x mod 2^26) << 38) | ((z mod 2^26) << 12) | (y mod 2^12)
PositionWord(x, y, z) ==
    Bind(x % 67108864, LAMBDA X :
    Bind(z % 67108864, LAMBDA Z :
    Bind(y % 4096, LAMBDA Y :
        << X \div 262144, (X \div 1024) % 256, (X \div 4) % 256,
           (X % 4) * 64 + Z \div 1048576, (Z \div 4096) % 256, (Z \div 16) % 256,
           (Z % 16) * 16 + Y \div 256, Y % 256 >>)))

\* C21: write_position(x, y, z) with x, z of 26 bits and y of 12 bits
\* appends the eight bytes of the word with x in the high 26 bits, z in the
\* next 26 and y in the low 12, and read_position returns (x, y, z)
C21_PositionPacking ==
    /\ bh.last.op = "write_position"
       => /\ bh.last.exc = ""
          /\ bh.buf.data = bh.last.before.data
                \o PositionWord(bh.last.arg[1], bh.last.arg[2], bh.last.arg[3])
    /\ (bh.kind = "position" /\ bh.last.op = "read_position")
       => /\ bh.last.exc = ""
          /\ bh.got[Len(bh.got)] = bh.written[Len(bh.got)]
\* C22: after any sequence of Buffer operations 0 <= pos <= len(buffer),
\* also after read_bytes() with pos > 0 and after a read of more bytes than
\* remain; reset() sets pos to 0 and keeps the bytes, clear() leaves an
\* empty buffer with pos 0, and read_bytes() after reset() returns the
\* whole content
C22_CursorInvariant ==
    bh.kind = "cursor"
    => /\ 0 <= bh.buf.pos
       /\ bh.buf.pos <= Len(bh.buf.data)
       /\ bh.last.op = "reset"
          => bh.buf.pos = 0 /\ bh.buf.data = bh.last.before.data
       /\ bh.last.op = "clear" => bh.buf = Buffer(<<>>)
       /\ (bh.last.op = "read_bytes" /\ bh.last.arg = <<>> /\ bh.last.before.pos = 0)
          => bh.last.val = bh.last.before.data

\* C23: a Buffer reader that returns a value has advanced pos by the
\* number of bytes of that value, and one that finds fewer bytes than it
\* needs fails: read_bytes(n) with fewer than n bytes remaining fails, and
\* after read_nbt() pos is just past the End marker of the tag read
C23_ReadersConsumeExactly ==
    /\ (bh.kind = "cursor" /\ bh.last.exc = "" /\ bh.last.op = "read_byte")
       => bh.buf.pos = bh.last.before.pos + 1
    /\ (bh.kind = "cursor" /\ bh.last.exc = "" /\ bh.last.op = "read_bytes")
       => /\ bh.buf.pos = bh.last.before.pos + Len(bh.last.val)
          /\ bh.last.arg # <<>> => Len(bh.last.val) = bh.last.arg[1]
    /\ (bh.kind = "cursor" /\ bh.last.exc = "" /\ bh.last.op = "read")
       => bh.buf.pos = bh.last.before.pos + bh.last.arg[1]
    /\ (bh.kind = "nbt" /\ bh.last.op = "read_nbt"
        /\ bh.last.before.data = pack_tag(bh.written[1], TRUE))
       => /\ bh.last.exc = ""
          /\ bh.buf.pos = Len(bh.buf.data)

\* C24: for every TAG_Compound n, nbt.unpack of pack(n) and of gzip(pack(n))
\* both return a compound equal to n in names, types and values
C24_NbtRoundTrip ==
    (bh.kind = "nbt" /\ bh.last.op = "nbt.unpack")
    => /\ bh.last.exc = ""
       /\ bh.last.val = bh.written[1]
FitsWire(p) ==
    \A k \in DOMAIN p.args :
        ClassOf(p.cls).fields[k + (IF p.cls = "LoginEncryptionRequest" THEN 1 ELSE 0)]
            = "string" => Len(p.args[k]) <= 32767

StringWire(s) == Varint(Len(s)) \o s
SlotWire(v) ==
    IF v.item_id = <<>> THEN <<0>>
    ELSE <<1>> \o Varint(v.item_id[1]) \o <<v.count % 256>>
         \o (IF v.tag.id = -1 THEN <<0>> ELSE pack_tag(v.tag, TRUE))
ParticleWire(v) ==
    Varint(v.particle_id)
    \o (IF v.particle_id \in {3, 23} THEN Varint(v.block_state)
        ELSE IF v.particle_id = 14
        THEN pack_float(v.red) \o pack_float(v.green) \o pack_float(v.blue)
             \o pack_float(v.scale)
        ELSE IF v.particle_id = 32 THEN SlotWire(v.item)
        ELSE <<>>)

\* the payload of an entry of type t in the shape of the dispatch table
MetadataPayload(t, v) ==
    CASE t = 0 -> <<v[1] % 256>>
      [] t = 1 -> Varint(v[1])
      [] t = 2 -> pack_float(v[1])
      [] t = 3 -> StringWire(v)
      [] t = 4 -> StringWire(json_dumps(v[1]))
      [] t = 5 -> IF v = <<>> THEN <<0>> ELSE <<1>> \o StringWire(json_dumps(v[1]))
      [] t = 6 -> SlotWire(v)
      [] t = 7 -> <<v[1]>>
      [] t = 8 -> pack_float(v[1]) \o pack_float(v[2]) \o pack_float(v[3])
      [] t = 9 -> PositionWord(v[1], v[2], v[3])
      [] t = 10 -> IF v = <<>> THEN <<0>> ELSE <<1>> \o PositionWord(v[1], v[2], v[3])
      [] t = 11 -> Varint(v[1])
      [] t = 12 -> IF v = <<>> THEN <<0>> ELSE <<1>> \o v
      [] t = 13 -> Varint(v[1])
      [] t = 14 -> pack_tag(v, TRUE)
      [] t = 15 -> ParticleWire(v)
      [] t = 16 -> Varint(v[1]) \o Varint(v[2]) \o Varint(v[3])
      [] t = 17 -> IF v = <<>> THEN Varint(0) ELSE Varint(v[2] + 1)
      [] t = 18 -> Varint(v[1])

RECURSIVE MetadataWire(_)
MetadataWire(value) ==
    IF value = <<>> THEN <<254>>
    ELSE <<Head(value).index>> \o Varint(Head(value).type)
         \o MetadataPayload(Head(value).type, Head(value).v)
         \o MetadataWire(Tail(value))

\* C28: write_entity_metadata appends, for each entry in order, the u8
\* index, the varint type and the payload in the shape the dispatch table
\* gives for the type code (0..18), and then the terminator byte 0xFE
C28_EntityMetadataDispatch ==
    (bh.last.op = "write_entity_metadata"
        /\ \A k \in DOMAIN bh.written : bh.written[k].type \in 0..18)
    => /\ bh.last.exc = ""
       /\ bh.buf.data = MetadataWire(bh.written)
====
